---- MODULE Spec2Model ----
(***************************************************************************)
(* Model of the futures trading engine (FuturesBot and its modules:        *)
(* StateManager, MarketScanner, PositionOpener, PositionMonitor,           *)
(* PositionCloser, PositionValidator) together with the storage layer and  *)
(* an abstract exchange.                                                   *)
(*                                                                         *)
(* Every module keeps a REFERENCE to a BotState object.  JavaScript object *)
(* identity matters (a module that replaces its state by a copy reloaded   *)
(* from disk no longer shares it with the others), so BotState objects     *)
(* live in `heap` and each module holds an object id in `ref`.             *)
(*                                                                         *)
(* Time is measured in seconds (Date.now()/1000), prices in quote units.   *)
(* Not modelled: the display-only fields currentPrice/currentPnL/          *)
(* currentPnLPercentage, winRate, monitoringSymbols, logging, the price    *)
(* stream, and failures of the file system calls other than the write of   *)
(* the state file.                                                         *)
(***************************************************************************)
EXTENDS Integers, Sequences, FiniteSets, TLC

VARIABLES
  heap,          \* object id -> BotState object
  ref,           \* module -> object id of its this.state
  config,        \* StateManager.config (synchronised to every module)
  isInitialized, \* FuturesBot.isInitialized
  isScanning,    \* MarketScanner.isScanning
  pc,            \* position of the scanLoop invocation in flight
  timers,        \* number of pending setTimeout callbacks
  handleLive,    \* MarketScanner.scanTimer designates a pending timeout
  timerDue,      \* time at which the last scheduled timeout is due
  now,           \* Date.now() in seconds
  today,         \* local calendar date (day number)
  stateFile,     \* data/bot-state.json
  configFile,    \* data/bot-config.json
  histFile,      \* data/trade-history.json
  exPos,         \* exchange: symbol -> position size
  stops,         \* exchange: stop orders the engine can still refer to
  restarts,      \* number of process restarts so far
  advisor,       \* ai-analysis.ts: 10-minute bucket of Date.now(), analysisCache,
                 \* and the last call of analyzeSymbol (for the properties)
  entryLeverage, \* the last leverage selection of openPosition
  stream,        \* the price stream: websocket service, manager, price service
  ev             \* observation of the last operation (for the properties)

vars == <<heap, ref, config, isInitialized, isScanning, pc, timers, handleLive,
          timerDue, now, today, stateFile, configFile, histFile,
          exPos, stops, restarts, advisor, entryLeverage, stream, ev>>

\* The engine's own variables (everything but the advisory service and the
\* observation of the last step).
programVars ==
  <<heap, ref, config, isInitialized, isScanning, pc, timers, handleLive, timerDue, now,
    today, stateFile, configFile, histFile, exPos, stops, restarts>>

(***************************************************************************)
(* Bounds of the model                                                     *)
(***************************************************************************)
MaxTime == 180       \* ticks are not started after this time
MaxRestarts == 1    \* process restarts
PatchedLosses == 1  \* consecutiveLossesThreshold the operator may set
MaxDay == 1          \* number of midnights that may pass
MaxObj == 3          \* BotState objects alive at the same time
OperatorDelay == 60  \* time that passes before a tick begun by start()/initialize()
MaxBucket == 1       \* 10-minute cache buckets that may pass

(***************************************************************************)
(* Program constants                                                       *)
(***************************************************************************)
MinBalance == 120            \* minimum available balance to open
MaxRetries == 3              \* waitAndConfirmPosition polls
IndicatorInterval == 300     \* monitor recomputes indicators after 300000 ms
DefScanInterval == 120
DefPositionScanInterval == 60
DefTradeCooldownInterval == 600
DefDailyLossThreshold == 2
DefConsecutiveLossesThreshold == 3
DefDailyTradeLimit == 3
DefTp1RiskRewardRatio == 2
DefTp2RiskRewardRatio == 3
DefUpdateIntervalSeconds == 60
DefPositionTimeoutHours == 4
StopLossATRNum == 3          \* stopLossATRMultiplier 1.5 = 3/2
StopLossATRDen == 2
MaxStopLossPercentage == 2
TrailingDistanceNum == 3     \* trailingDistance 1.5 = 3/2
TrailingDistanceDen == 2
ActivationNum == 1           \* activationRatio 0.5 = 1/2
ActivationDen == 2

Modules == {"sm", "sc", "op", "mo", "cl", "va"}
ModSeq == <<"sm", "sc", "op", "mo", "cl", "va">>
ObjIds == 1..MaxObj
Symbols == <<"BTC", "ETH">>
SymbolSet == {Symbols[i] : i \in 1..Len(Symbols)}
EntryPrices == {200}
Prices == {197, 203}
ATRs == {2, 6}
EntryATRs == {6}
Balances == {100, 1000}
Qty == 1
Fail == 0 - 1            \* a call that throws
NoPos == [symbol |-> "NONE"]
NoFile == [status |-> "NOFILE"]
Torn == [status |-> "TORN"]   \* a proper prefix of a JSON document
FreeCell == [status |-> "FREE"]

Min(a, b) == IF a <= b THEN a ELSE b
Max(a, b) == IF a >= b THEN a ELSE b
Abs(a) == IF a >= 0 THEN a ELSE 0 - a
Range(f) == {f[x] : x \in DOMAIN f}

(***************************************************************************)
(* storage.ts: defaults                                                    *)
(***************************************************************************)
\* riskConfig is one nested object: a patch replaces it as a whole.
DefaultRiskConfig ==
  [dailyLossThreshold |-> DefDailyLossThreshold,
   consecutiveLossesThreshold |-> DefConsecutiveLossesThreshold,
   dailyTradeLimit |-> DefDailyTradeLimit,
   tp1RiskRewardRatio |-> DefTp1RiskRewardRatio,
   tp2RiskRewardRatio |-> DefTp2RiskRewardRatio,
   forceLiquidateTime |-> [hour |-> 23, minute |-> 30]]

\* stopLossATRMultiplier 1.5 and trailingDistance 1.5 are the fraction 3/2,
\* activationRatio 0.5 is 1/2, maxStopLossPercentage is 2 (percent).
getDefaultConfig ==
  [scanInterval |-> DefScanInterval,
   positionScanInterval |-> DefPositionScanInterval,
   tradeCooldownInterval |-> DefTradeCooldownInterval,
   positionTimeoutHours |-> DefPositionTimeoutHours,
   trailingEnabled |-> TRUE,
   updateIntervalSeconds |-> DefUpdateIntervalSeconds,
   riskConfig |-> DefaultRiskConfig]

getDefaultState(day) ==
  [status |-> "IDLE",
   currentPosition |-> NoPos,
   cbTriggered |-> FALSE,
   consecutiveLosses |-> 0,
   todayTrades |-> 0,
   dailyPnL |-> 0,
   lastResetDate |-> day,
   isRunning |-> FALSE,
   allowNewTrades |-> TRUE,
   lastTradeTime |-> 0,
   totalTrades |-> 0,
   totalPnL |-> 0,
   lastIndicatorUpdate |-> 0,
   lastPrice |-> 0]

(***************************************************************************)
(* The world: all variables as one record, so that the sequential steps    *)
(* of a handler compose as functions.  `ret` and `thrown` are the          *)
(* handler's return value and pending exception; `clock` is the local     *)
(* wall-clock time (dayjs().hour(), dayjs().minute()) read in this tick.   *)
(***************************************************************************)
Noon == [hour |-> 12, minute |-> 0]

World ==
  [heap |-> heap, ref |-> ref, config |-> config,
   isInitialized |-> isInitialized, isScanning |-> isScanning, pc |-> pc,
   timers |-> timers, handleLive |-> handleLive, timerDue |-> timerDue,
   now |-> now, today |-> today, clock |-> Noon,
   stateFile |-> stateFile, configFile |-> configFile, histFile |-> histFile,
   exPos |-> exPos, stops |-> stops,
   restarts |-> restarts, ev |-> ev, ret |-> 0, thrown |-> FALSE]

\* const v = <value>; <rest of the function body>.
Bind(v, F(_)) == F(v)

\* The state object a module refers to.
St(w, m) == w.heap[w.ref[m]]

\* Assign fields of the object a module refers to (visible to every alias).
SetSt(w, m, new) == [w EXCEPT !.heap[w.ref[m]] = new]

\* A fresh object id (an id no module refers to).
Alloc(w) == CHOOSE i \in ObjIds : i \notin Range(w.ref) /\
                \A j \in ObjIds : j \notin Range(w.ref) => i <= j

\* module.state = a new object holding value v
NewObj(w, m, v) ==
  LET i == Alloc(w) IN [w EXCEPT !.heap[i] = v, !.ref[m] = i]

\* Renumber the objects in order of first reference and drop garbage.
FirstIdx(r, i) == CHOOSE k \in 1..Len(ModSeq) :
                     r[ModSeq[k]] = i /\ \A j \in 1..(k-1) : r[ModSeq[j]] # i
Canon(w) ==
  LET used == Range(w.ref)
      newId(i) == Cardinality({j \in used : FirstIdx(w.ref, j) <= FirstIdx(w.ref, i)})
      old(n) == CHOOSE i \in used : newId(i) = n
  IN [w EXCEPT
        !.heap = [n \in ObjIds |-> IF n <= Cardinality(used)
                                    THEN w.heap[old(n)] ELSE FreeCell],
        !.ref = [m \in Modules |-> newId(w.ref[m])]]

(***************************************************************************)
(* storage.ts                                                              *)
(***************************************************************************)
\* JSON.stringify(state) written to the state file.
saveBotState(w, m) == [w EXCEPT !.stateFile = St(w, m)]

\* loadBotState: null (NoFile) when the file is missing or does not parse.
loadBotState(w) ==
  IF w.stateFile.status \in {"NOFILE", "TORN"} THEN NoFile ELSE w.stateFile

\* Sort by closeTime, newest first (Array.prototype.sort is stable).
RECURSIVE InsertDesc(_, _)
InsertDesc(row, s) ==
  IF s = <<>> THEN <<row>>
  ELSE IF Head(s).closeTime >= row.closeTime
       THEN <<Head(s)>> \o InsertDesc(row, Tail(s))
       ELSE <<row>> \o s
RECURSIVE SortDesc(_)
SortDesc(s) ==
  IF s = <<>> THEN <<>>
  ELSE LET n == Len(s) IN InsertDesc(s[n], SortDesc(SubSeq(s, 1, n - 1)))

RECURSIVE SumPnl(_)
SumPnl(s) == IF s = <<>> THEN 0 ELSE Head(s).pnl + SumPnl(Tail(s))

\* getTradeHistory: a file that does not parse reads as the empty history.
getTradeHistory(w) == IF w.histFile.ok THEN SortDesc(w.histFile.rows) ELSE <<>>

\* updateTotalStatsInState: reload the state file, set the aggregates, save,
\* and return the reloaded object (w.ret = its value, or NoFile for null).
updateTotalStatsInState(w) ==
  LET history == getTradeHistory(w)
      cur == loadBotState(w)
  IN IF cur.status = "NOFILE"
     THEN [w EXCEPT !.ret = NoFile]
     ELSE LET upd == [cur EXCEPT !.totalTrades = Len(history),
                                 !.totalPnL = SumPnl(history)]
          IN [w EXCEPT !.stateFile = upd, !.ret = upd]

\* addTradeHistory: read (a file that fails to parse counts as empty),
\* push, sort, write the whole file, then update the aggregates.
addTradeHistory(w, trade) ==
  LET history == IF w.histFile.ok THEN w.histFile.rows ELSE <<>>
      written == SortDesc(Append(history, trade))
  IN updateTotalStatsInState([w EXCEPT !.histFile = [ok |-> TRUE, rows |-> written]])

(***************************************************************************)
(* risk.ts                                                                 *)
(***************************************************************************)
HasPos(s) == s.currentPosition.symbol # "NONE"

checkCircuitBreaker(dailyPnL, consecutiveLosses, accountBalance, riskConfig) ==
  \* dailyLossPercent = |dailyPnL| / accountBalance * 100
  IF dailyPnL < 0 /\ Abs(dailyPnL) * 100 >= riskConfig.dailyLossThreshold * accountBalance
  THEN [isTriggered |-> TRUE, consecutiveLosses |-> consecutiveLosses]
  ELSE IF consecutiveLosses >= riskConfig.consecutiveLossesThreshold
  THEN [isTriggered |-> TRUE, consecutiveLosses |-> consecutiveLosses]
  ELSE [isTriggered |-> FALSE, consecutiveLosses |-> consecutiveLosses]

\* (variant: the date is not compared)
shouldResetDailyState_always(w, lastResetDate) == TRUE

shouldResetDailyState(w, lastResetDate) == lastResetDate # w.today

\* (variant: the window begins one minute later)
shouldForceLiquidate_strict(clock, riskConfig) ==
  /\ clock.hour = riskConfig.forceLiquidateTime.hour
  /\ clock.minute > riskConfig.forceLiquidateTime.minute

shouldForceLiquidate(clock, riskConfig) ==
  /\ clock.hour = riskConfig.forceLiquidateTime.hour
  /\ clock.minute >= riskConfig.forceLiquidateTime.minute

checkDailyTradeLimit(todayTrades, riskConfig) == todayTrades < riskConfig.dailyTradeLimit

calculatePnL(currentPrice, position) ==
  IF position.direction = "LONG"
  THEN (currentPrice - position.entryPrice) * position.quantity
  ELSE (position.entryPrice - currentPrice) * position.quantity

Profit(currentPrice, position) ==
  IF position.direction = "LONG" THEN currentPrice - position.entryPrice
  ELSE position.entryPrice - currentPrice

\* holdingTime (hours) >= timeoutHours and ADX decreasing
isPositionTimeout(w, position, timeoutHours, adxDecreasing) ==
  (w.now - position.openTime) >= timeoutHours * 3600 /\ adxDecreasing

\* The required ratio is the literal 1: triggered = profit >= risk.
checkTP1Condition(currentPrice, position) ==
  Profit(currentPrice, position) >= Abs(position.entryPrice - position.stopLoss)

\* otherTrigger stands for the RSI-extreme and ADX-decrease triggers, which
\* depend on indicator values only.
checkTP2Condition(currentPrice, position, otherTrigger, riskConfig) ==
  \/ Profit(currentPrice, position) >=
       Abs(position.entryPrice - position.stopLoss) * riskConfig.tp2RiskRewardRatio
  \/ otherTrigger

(***************************************************************************)
(* helpers/trade-recorder.ts                                               *)
(***************************************************************************)
TradeRow(w, position, exitPrice, reason) ==
  [openTime |-> position.openTime,
   pnl |-> calculatePnL(exitPrice, position),
   closeTime |-> w.now]

recordTrade(w, position, exitPrice, reason) ==
  addTradeHistory(w, TradeRow(w, position, exitPrice, reason))

(***************************************************************************)
(* The exchange (behind BinanceService)                                    *)
(***************************************************************************)
StopOf(w, id) == {o \in w.stops : o.id = id}

\* cancelOrder(id, symbol, {trigger}): succeeds on an open order only.
CanCancel(w, id) == \E o \in w.stops : o.id = id /\ o.status = "open"
exCancelOrder(w, id) == [w EXCEPT !.stops = {o \in w.stops : o.id # id}]

exCancelAllOrders(w, symbol) ==
  [w EXCEPT !.stops = {o \in w.stops : ~(o.symbol = symbol /\ o.status = "open")}]

\* A closing market order (one-way mode): flattens the position; with no
\* position left on the exchange it opens one in the opposite direction.
exMarketClose(w, symbol) ==
  [w EXCEPT !.exPos[symbol] = IF w.exPos[symbol] # 0 THEN 0 ELSE Qty]

\* Order ids some state object or the state file still refers to.
Referenced(w) ==
  {x.currentPosition.stopLossOrderId :
     x \in {y \in Range(w.heap) \cup {loadBotState(w)} :
              y.status \notin {"FREE", "NOFILE"} /\ HasPos(y)}}

\* The exchange answers with an order id that designates no other order.
FreshId(w) ==
  LET taken == {o.id : o \in w.stops} \cup Referenced(w)
  IN CHOOSE i \in 1..(Cardinality(taken) + 1) :
       i \notin taken /\ \A j \in 1..(i - 1) : j \in taken

exStopLossOrder(w, symbol, stopPrice) ==
  [w EXCEPT !.stops = w.stops \cup
               {[id |-> FreshId(w), symbol |-> symbol, price |-> stopPrice, status |-> "open"]},
            !.ret = FreshId(w)]

Throw(w) == [w EXCEPT !.thrown = TRUE]
Caught(w) == [w EXCEPT !.thrown = FALSE]

(***************************************************************************)
(* trading/position-closer.ts                                              *)
(*   o.cancel : the cancel calls succeed     o.market : market order ok    *)
(*   o.price  : fetchPrice result or Fail    o.bal    : balance or Fail    *)
(***************************************************************************)
\* pnl = updatedState?.totalPnL ? (this.state.dailyPnL || 0) : 0
ClosePnl(updated, state) ==
  IF updated.status # "NOFILE" /\ updated.totalPnL # 0 THEN state.dailyPnL ELSE 0

closePosition(w, position, reason, o) ==
  Bind([w EXCEPT !.ev.closeTried = TRUE,
                 !.ev.closeReason = reason,
                 !.ev.dailyBefore = St(w, "cl").dailyPnL,
                 !.ev.lossesBefore = St(w, "cl").consecutiveLosses], LAMBDA w0 :
  Bind(saveBotState(SetSt(w0, "cl", [St(w0, "cl") EXCEPT !.status = "CLOSING"]), "cl"),
       LAMBDA w1 :
  Bind(IF position.stopLossOrderId # 0 /\ o.cancel /\ CanCancel(w1, position.stopLossOrderId)
       THEN exCancelOrder(w1, position.stopLossOrderId) ELSE w1, LAMBDA w2 :
  Bind(IF o.cancel THEN exCancelAllOrders(w2, position.symbol) ELSE w2, LAMBDA w3 :
  IF ~o.market THEN Throw(w3) ELSE
  Bind(exMarketClose(w3, position.symbol), LAMBDA w4 :
  IF o.price = Fail THEN Throw(w4) ELSE
  Bind(recordTrade(w4, position, o.price, reason), LAMBDA w5 :
  Bind(w5.ret, LAMBDA updated :
  Bind([(IF updated.status # "NOFILE" THEN NewObj(w5, "cl", updated) ELSE w5)
          EXCEPT !.ev.closeKind = "explicit",
                 !.ev.rowPnl = calculatePnL(o.price, position),
                 !.ev.rows = w.ev.rows + 1], LAMBDA w6 :
  Bind(ClosePnl(updated, St(w6, "cl")), LAMBDA pnl :
  Bind(SetSt(w6, "cl", [St(w6, "cl") EXCEPT !.dailyPnL = @ + pnl]), LAMBDA w7 :
  IF o.bal = Fail THEN Throw(w7) ELSE
  Bind(IF pnl < 0 THEN St(w7, "cl").consecutiveLosses + 1 ELSE 0, LAMBDA consecutiveLosses :
  Bind(checkCircuitBreaker(St(w7, "cl").dailyPnL, consecutiveLosses,
                           o.bal, w.config.riskConfig), LAMBDA breaker :
  Bind(SetSt(w7, "cl",
         [St(w7, "cl") EXCEPT
            !.cbTriggered = breaker.isTriggered,
            !.consecutiveLosses = breaker.consecutiveLosses,
            !.currentPosition = NoPos,
            !.status = IF breaker.isTriggered THEN "HALTED" ELSE "MONITORING",
            !.isRunning = IF breaker.isTriggered THEN FALSE ELSE @]), LAMBDA w8 :
  [saveBotState(w8, "cl") EXCEPT !.ev.closeDone = TRUE])))))))))))))

(***************************************************************************)
(* trading/position-validator.ts                                           *)
(*   o.fetchOrder : fetchOrder succeeds      o.cancel : cancelOrder ok     *)
(*   o.price, o.bal as above                 o.fetchPos : fetchPositions ok*)
(***************************************************************************)
\* The exit price of a compensated close; Fail when fetchPrice throws.
\* An open stop-market order reports neither average nor price.
CompensatedExitPrice(w, position, o) ==
  IF position.stopLossOrderId # 0
  THEN IF o.fetchOrder
       THEN IF \E s \in StopOf(w, position.stopLossOrderId) : s.status = "closed"
            THEN (CHOOSE s \in StopOf(w, position.stopLossOrderId) : TRUE).price
            ELSE IF o.cancel /\ CanCancel(w, position.stopLossOrderId)
                 THEN position.stopLoss
                 ELSE o.price
       ELSE o.price
  ELSE o.price

\* (variant: the breaker is set and the position is left in the state)
handleCompensatedClose_keepsPosition(w, position, reason, o) ==
  Bind(CompensatedExitPrice(w, position, o), LAMBDA exitPrice :
  Bind([w EXCEPT !.ev.dailyBefore = St(w, "va").dailyPnL,
                 !.ev.lossesBefore = St(w, "va").consecutiveLosses], LAMBDA w0 :
  Bind(IF /\ position.stopLossOrderId # 0 /\ o.fetchOrder
          /\ ~(\E s \in StopOf(w, position.stopLossOrderId) : s.status = "closed")
          /\ o.cancel /\ CanCancel(w, position.stopLossOrderId)
       THEN exCancelOrder(w0, position.stopLossOrderId) ELSE w0, LAMBDA w1 :
  IF exitPrice = Fail THEN Throw(w1) ELSE
  Bind(calculatePnL(exitPrice, position), LAMBDA pnl :
  Bind(recordTrade(w1, position, exitPrice, reason), LAMBDA w2 :
  Bind(w2.ret, LAMBDA updated :
  Bind([(IF updated.status # "NOFILE" THEN NewObj(w2, "va", updated) ELSE w2)
          EXCEPT !.ev.closeKind = "compensated",
                 !.ev.rowPnl = pnl,
                 !.ev.exitPrice = exitPrice,
                 !.ev.stopFilled =
                    (\E x \in StopOf(w, position.stopLossOrderId) : x.status = "closed"),
                 !.ev.marketPrice = o.price,
                 !.ev.rows = w.ev.rows + 1], LAMBDA w3 :
  Bind(SetSt(w3, "va", [St(w3, "va") EXCEPT !.dailyPnL = @ + pnl]), LAMBDA w4 :
  IF o.bal = Fail THEN Throw(w4) ELSE
  Bind(IF pnl < 0 THEN St(w4, "va").consecutiveLosses + 1 ELSE 0, LAMBDA consecutiveLosses :
  Bind(checkCircuitBreaker(St(w4, "va").dailyPnL, consecutiveLosses,
                           o.bal, w.config.riskConfig), LAMBDA breaker :
  Bind(SetSt(w4, "va",
         [St(w4, "va") EXCEPT
            !.cbTriggered = breaker.isTriggered,
            !.consecutiveLosses = breaker.consecutiveLosses,
            !.currentPosition = @,
            !.status = IF breaker.isTriggered THEN "HALTED" ELSE "MONITORING",
            !.lastTradeTime = w.now,
            !.isRunning = IF breaker.isTriggered THEN FALSE ELSE @]), LAMBDA w5 :
  [saveBotState(w5, "va") EXCEPT !.ev.closeDone = TRUE])))))))))))

handleCompensatedClose(w, position, reason, o) ==
  Bind(CompensatedExitPrice(w, position, o), LAMBDA exitPrice :
  Bind([w EXCEPT !.ev.dailyBefore = St(w, "va").dailyPnL,
                 !.ev.lossesBefore = St(w, "va").consecutiveLosses], LAMBDA w0 :
  Bind(IF /\ position.stopLossOrderId # 0 /\ o.fetchOrder
          /\ ~(\E s \in StopOf(w, position.stopLossOrderId) : s.status = "closed")
          /\ o.cancel /\ CanCancel(w, position.stopLossOrderId)
       THEN exCancelOrder(w0, position.stopLossOrderId) ELSE w0, LAMBDA w1 :
  IF exitPrice = Fail THEN Throw(w1) ELSE
  Bind(calculatePnL(exitPrice, position), LAMBDA pnl :
  Bind(recordTrade(w1, position, exitPrice, reason), LAMBDA w2 :
  Bind(w2.ret, LAMBDA updated :
  Bind([(IF updated.status # "NOFILE" THEN NewObj(w2, "va", updated) ELSE w2)
          EXCEPT !.ev.closeKind = "compensated",
                 !.ev.rowPnl = pnl,
                 !.ev.exitPrice = exitPrice,
                 !.ev.stopFilled =
                    (\E x \in StopOf(w, position.stopLossOrderId) : x.status = "closed"),
                 !.ev.marketPrice = o.price,
                 !.ev.rows = w.ev.rows + 1], LAMBDA w3 :
  Bind(SetSt(w3, "va", [St(w3, "va") EXCEPT !.dailyPnL = @ + pnl]), LAMBDA w4 :
  IF o.bal = Fail THEN Throw(w4) ELSE
  Bind(IF pnl < 0 THEN St(w4, "va").consecutiveLosses + 1 ELSE 0, LAMBDA consecutiveLosses :
  Bind(checkCircuitBreaker(St(w4, "va").dailyPnL, consecutiveLosses,
                           o.bal, w.config.riskConfig), LAMBDA breaker :
  Bind(SetSt(w4, "va",
         [St(w4, "va") EXCEPT
            !.cbTriggered = breaker.isTriggered,
            !.consecutiveLosses = breaker.consecutiveLosses,
            !.currentPosition = NoPos,
            !.status = IF breaker.isTriggered THEN "HALTED" ELSE "MONITORING",
            !.lastTradeTime = w.now,
            !.isRunning = IF breaker.isTriggered THEN FALSE ELSE @]), LAMBDA w5 :
  [saveBotState(w5, "va") EXCEPT !.ev.closeDone = TRUE])))))))))))

\* ev.failed notes the exchange call of the monitor that threw.
\* (variant: a failing fetchPositions counts as an empty answer)
checkPositionConsistency_failAsEmpty(w, position, o) ==
  Bind(IF ~o.fetchPos THEN [w EXCEPT !.ev.failed = "fetchPositions"] ELSE w, LAMBDA wf :
  IF o.fetchPos /\ wf.exPos[position.symbol] # 0 THEN [wf EXCEPT !.ret = TRUE]
  ELSE Bind(handleCompensatedClose([wf EXCEPT !.ev.inconsistent = TRUE], position,
              IF position.stopLossOrderId # 0 THEN "STOP_TRIGGERED" ELSE "UNKNOWN", o),
            LAMBDA w1 :
       Bind(IF w1.thrown
            THEN saveBotState(
                   SetSt(Caught(w1), "va",
                     [St(w1, "va") EXCEPT !.currentPosition = NoPos,
                                          !.status = "MONITORING"]), "va")
            ELSE w1, LAMBDA w2 :
       [w2 EXCEPT !.ret = FALSE])))

\* w.ret = TRUE when the exchange still holds the position.
checkPositionConsistency(w, position, o) ==
  IF ~o.fetchPos THEN Throw([w EXCEPT !.ev.failed = "fetchPositions"])
  ELSE IF w.exPos[position.symbol] # 0 THEN [w EXCEPT !.ret = TRUE]
  ELSE Bind(handleCompensatedClose([w EXCEPT !.ev.inconsistent = TRUE], position,
              IF position.stopLossOrderId # 0 THEN "STOP_TRIGGERED" ELSE "UNKNOWN", o),
            LAMBDA w1 :
       Bind(IF w1.thrown
            THEN saveBotState(
                   SetSt(Caught(w1), "va",
                     [St(w1, "va") EXCEPT !.currentPosition = NoPos,
                                          !.status = "MONITORING"]), "va")
            ELSE w1, LAMBDA w2 :
       [w2 EXCEPT !.ret = FALSE]))

(***************************************************************************)
(* helpers/trailing-stop.ts                                                *)
(***************************************************************************)
\* (variant: the candidate is taken without comparing it to the stop)
calculateTrailingStopLoss_unchecked(currentPrice, position, atr) ==
  LET trailingDistance == (atr * TrailingDistanceNum) \div TrailingDistanceDen
      candidate == IF position.direction = "LONG"
                   THEN currentPrice - trailingDistance
                   ELSE currentPrice + trailingDistance
  IN IF Abs(position.entryPrice - position.stopLoss) > 0 /\
        Profit(currentPrice, position) * ActivationDen >=
          ActivationNum * Abs(position.entryPrice - position.stopLoss)
     THEN [shouldUpdate |-> TRUE, newStopLoss |-> candidate]
     ELSE [shouldUpdate |-> FALSE, newStopLoss |-> 0]

calculateTrailingStopLoss(currentPrice, position, atr) ==
  LET stopLoss == position.stopLoss
      initialRisk == Abs(position.entryPrice - stopLoss)
      currentProfit == Profit(currentPrice, position)
      \* profitRiskRatio = initialRisk > 0 ? currentProfit / initialRisk : 0
      belowActivation ==
        IF initialRisk > 0
        THEN currentProfit * ActivationDen < ActivationNum * initialRisk
        ELSE TRUE
      trailingDistance == (atr * TrailingDistanceNum) \div TrailingDistanceDen
      candidate == IF position.direction = "LONG"
                   THEN currentPrice - trailingDistance
                   ELSE currentPrice + trailingDistance
      better == IF position.direction = "LONG"
                THEN candidate > stopLoss ELSE candidate < stopLoss
  IN IF belowActivation
     THEN [shouldUpdate |-> FALSE, newStopLoss |-> 0]
     ELSE [shouldUpdate |-> better,
           newStopLoss |-> IF better THEN candidate ELSE stopLoss]

shouldUpdateTrailingStop(w, lastUpdateTime, updateIntervalSeconds) ==
  w.now - lastUpdateTime >= updateIntervalSeconds

(***************************************************************************)
(* trading/position-monitor.ts                                             *)
(*   o.mprice : getPrice result or Fail                                    *)
(*   o.indOk  : calculateIndicators succeeds, with                         *)
(*   o.ind    : [atr, adxDec, tp2Other]                                    *)
(*   o.cancel, o.stop : cancelOrder / stopLossOrder succeed                *)
(***************************************************************************)
\* The position object is the one FuturesBot.monitorPosition read from the
\* state manager's state; it is mutated in place.
updateStopLoss(w, position, newStopLoss, o) ==
  Bind([w EXCEPT !.ev.trailTried = TRUE], LAMBDA w0 :
  Bind(IF position.stopLossOrderId # 0 /\ o.cancel /\ CanCancel(w0, position.stopLossOrderId)
       THEN exCancelOrder(w0, position.stopLossOrderId) ELSE w0, LAMBDA w1 :
  IF ~o.stop THEN Throw(w1) ELSE
  Bind(exStopLossOrder(w1, position.symbol, newStopLoss), LAMBDA w2 :
  Bind([position EXCEPT !.stopLoss = newStopLoss,
                        !.stopLossOrderId = w2.ret,
                        !.lastStopLossUpdate = w.now], LAMBDA moved :
  Bind(SetSt(w2, "sm", [St(w2, "sm") EXCEPT !.currentPosition = moved]), LAMBDA w3 :
  Bind(IF HasPos(St(w3, "mo"))
       THEN saveBotState(SetSt(w3, "mo", [St(w3, "mo") EXCEPT !.currentPosition = moved]), "mo")
       ELSE w3, LAMBDA w4 :
  [w4 EXCEPT !.ev.stopMoved = TRUE]))))))

checkAndUpdateTrailingStop(w, currentPrice, position, atr, o) ==
  IF ~w.config.trailingEnabled THEN w
  ELSE Bind(IF position.lastStopLossUpdate # 0
            THEN position.lastStopLossUpdate ELSE position.openTime, LAMBDA lastUpdate :
       Bind(calculateTrailingStopLoss(currentPrice, position, atr), LAMBDA result :
       IF ~shouldUpdateTrailingStop(w, lastUpdate, w.config.updateIntervalSeconds)
       THEN w
       ELSE IF result.shouldUpdate /\ result.newStopLoss # 0
            THEN Caught(updateStopLoss(w, position, result.newStopLoss, o))
            ELSE w))

\* |price - (lastPrice || 0)| / (lastPrice || price) > 0.01
PriceChangedSignificantly(price, lastPrice) ==
  Abs(price - lastPrice) * 100 > (IF lastPrice # 0 THEN lastPrice ELSE price)

\* What holds of the position at this tick's price: the holding time has
\* passed and the ADX is seen decreasing, some TP2 trigger holds (the RSI
\* and ADX triggers are known only when the indicators were computed), the
\* TP1 condition holds.
ExitConditions(w, price, position, hasIndicators, ind) ==
  [evaluated |-> TRUE,
   profit |-> Profit(price, position),
   risk |-> Abs(position.entryPrice - position.stopLoss),
   indicators |-> hasIndicators,
   timeout |-> hasIndicators /\
               isPositionTimeout(w, position, w.config.positionTimeoutHours, ind.adxDec),
   tp2 |-> checkTP2Condition(price, position, hasIndicators /\ ind.tp2Other,
                             w.config.riskConfig),
   tp1 |-> checkTP1Condition(price, position)]

\* w.ret = the close reason, or "" for shouldClose = false.
monitorPosition(w, position, o) ==
  Bind(o.mprice, LAMBDA price :
  IF price = Fail THEN [w EXCEPT !.ret = "", !.ev.failed = "price"] ELSE
  Bind(saveBotState(w, "mo"), LAMBDA w1 :
  Bind(\/ w.now - St(w1, "mo").lastIndicatorUpdate > IndicatorInterval
       \/ PriceChangedSignificantly(price, St(w1, "mo").lastPrice), LAMBDA needInd :
  IF needInd /\ ~o.indOk THEN [w1 EXCEPT !.ret = "", !.ev.failed = "indicators"] ELSE
  Bind([(IF needInd
         THEN SetSt(w1, "mo", [St(w1, "mo") EXCEPT !.lastIndicatorUpdate = w.now,
                                                    !.lastPrice = price])
         ELSE w1)
          EXCEPT !.ev.exit = ExitConditions(w, price, position, needInd, o.ind)],
       LAMBDA w2 :
  IF needInd /\ isPositionTimeout(w, position, w.config.positionTimeoutHours, o.ind.adxDec)
  THEN [w2 EXCEPT !.ret = "TIMEOUT"]
  ELSE IF needInd /\ checkTP2Condition(price, position, o.ind.tp2Other, w.config.riskConfig)
  THEN [w2 EXCEPT !.ret = "TP2"]
  ELSE IF checkTP1Condition(price, position)
  THEN [w2 EXCEPT !.ret = "TP1"]
  ELSE IF needInd
  THEN [checkAndUpdateTrailingStop(w2, price, position, o.ind.atr, o) EXCEPT !.ret = ""]
  ELSE [w2 EXCEPT !.ret = ""]))))

(***************************************************************************)
(* FuturesBot (index of the module)                                        *)
(***************************************************************************)
syncStateToModules(w) == [w EXCEPT !.ref = [m \in Modules |-> w.ref["sm"]]]

\* stateManager.setState(module.state); syncStateToModules()
AdoptStateOf(w, m) == syncStateToModules([w EXCEPT !.ref["sm"] = w.ref[m]])

closePositionIfExists(w, reason, o) ==
  IF ~HasPos(St(w, "sm")) THEN w
  ELSE Bind(closePosition(w, St(w, "sm").currentPosition, reason, o), LAMBDA w1 :
       IF w1.thrown THEN w1 ELSE AdoptStateOf(w1, "cl"))

FuturesBot_monitorPosition(w, o) ==
  IF ~HasPos(St(w, "sm")) THEN w
  ELSE Bind(St(w, "sm").currentPosition, LAMBDA position :
       Bind(checkPositionConsistency([w EXCEPT !.ev.monitored = TRUE], position, o),
            LAMBDA w1 :
       IF w1.thrown THEN Caught(w1)
       ELSE IF ~w1.ret THEN AdoptStateOf(w1, "va")
       ELSE Bind(monitorPosition(w1, position, o), LAMBDA w2 :
            Bind(AdoptStateOf(w2, "mo"), LAMBDA w3 :
            IF w2.ret # ""
            THEN Caught(closePositionIfExists(w3, w2.ret, o))
            ELSE w3))))

(***************************************************************************)
(* utils/indicators.ts: stop-loss price                                    *)
(***************************************************************************)
\* utils/indicators.ts
calculateTakeProfit(entryPrice, stopLoss, direction, ratio) ==
  LET risk == Abs(entryPrice - stopLoss)
      reward == risk * ratio
  IN IF direction = "LONG" THEN entryPrice + reward ELSE entryPrice - reward

calculateStopLoss(entryPrice, direction, atr) ==
  LET stopLossDistance == (atr * StopLossATRNum) \div StopLossATRDen
      maxStopLossDistance == (entryPrice * MaxStopLossPercentage) \div 100
      finalDistance == Min(stopLossDistance, maxStopLossDistance)
  IN IF direction = "LONG" THEN entryPrice - finalDistance
     ELSE entryPrice + finalDistance

(***************************************************************************)
(* helpers/position-helpers.ts                                             *)
(*   polls[a] : the a-th fetchPositions call succeeds                      *)
(*   visible  : the exchange reports a non-zero position                   *)
(* Result: "true", "false" or "throw".                                     *)
(***************************************************************************)
RECURSIVE waitAndConfirmFrom(_, _, _)
waitAndConfirmFrom(attempt, polls, visible) ==
  IF attempt > MaxRetries THEN "false"
  ELSE IF polls[attempt]
       THEN IF visible THEN "true"
            ELSE IF attempt = MaxRetries THEN "false"
                 ELSE waitAndConfirmFrom(attempt + 1, polls, visible)
       ELSE IF attempt = MaxRetries THEN "throw"
            ELSE waitAndConfirmFrom(attempt + 1, polls, visible)

waitAndConfirmPosition(polls, visible) == waitAndConfirmFrom(1, polls, visible)

(***************************************************************************)
(* trading/position-opener.ts                                              *)
(*   o.bal    : availableBalance or Fail                                   *)
(*   o.pre    : leverage, margin mode and sizing succeed                   *)
(*   o.entry  : "filled", "pending" (accepted, never becomes visible),     *)
(*              "late" (accepted, fills after the polls) or "rejected"     *)
(*   o.polls, o.fetch2, o.stop : confirmation polls, second fetchPositions *)
(*              and stop-loss order placement succeed                      *)
(*   o.save   : the write of the state file after the entry succeeds       *)
(***************************************************************************)
\* (variant: the catch block rethrows without reverting the status)
OpenFailed_noRevert(w) == Throw(w)

\* catch: status = MONITORING, save, rethrow
OpenFailed(w) ==
  Throw(saveBotState(SetSt(w, "op", [St(w, "op") EXCEPT !.status = "MONITORING"]), "op"))

\* Observation: what openPosition leaves behind when it throws for want of
\* a confirmed position.
NotConfirmed(w) ==
  [w EXCEPT !.ev.notConfirmed = TRUE,
            !.ev.failThrown = w.thrown,
            !.ev.failStatus = St(w, "op").status,
            !.ev.failHasPos = HasPos(St(w, "op")),
            !.ev.failTrades = St(w, "op").todayTrades,
            !.ev.failRows = Len(w.histFile.rows)]

\* The entry order fills on the exchange after the confirmation polls
\* have given up and openPosition has thrown.
LateFill(w, symbol, o) ==
  IF o.entry = "late" THEN [w EXCEPT !.exPos[symbol] = Qty] ELSE w

\* Observation: how a call of openPosition that set status = OPENING ends.
OpenEnded(w, symbol) ==
  [w EXCEPT !.ev.opens = Append(@,
     [thrown |-> w.thrown,
      status |-> St(w, "op").status,
      hasPos |-> HasPos(St(w, "op")),
      trades |-> St(w, "op").todayTrades,
      tradesBefore |-> w.ev.tradesBefore,
      onExchange |-> w.exPos[symbol] # 0])]

openPosition(w, signal, o) ==
  Bind([w EXCEPT !.ev.openAttempts = @ + 1,
                 !.ev.tradesBefore = St(w, "op").todayTrades,
                 !.ev.rowsBefore = Len(w.histFile.rows),
                 !.ev.attemptInCooldown = @ \/
                    (St(w, "op").lastTradeTime # 0 /\
                     w.now < St(w, "op").lastTradeTime + w.config.tradeCooldownInterval),
                 !.ev.attemptWithBreaker = @ \/ St(w, "op").cbTriggered], LAMBDA wa :
  IF o.bal = Fail THEN OpenFailed(wa)
  ELSE IF o.bal < MinBalance THEN wa ELSE
  Bind(saveBotState(SetSt(wa, "op", [St(wa, "op") EXCEPT !.status = "OPENING"]), "op"),
       LAMBDA w1 :
  IF ~o.pre THEN OpenEnded(OpenFailed(w1), signal.symbol) ELSE
  Bind(calculateStopLoss(signal.price, signal.direction, signal.atr), LAMBDA stopLoss :
  IF o.entry = "rejected" THEN OpenEnded(OpenFailed(w1), signal.symbol) ELSE
  Bind([w1 EXCEPT !.exPos[signal.symbol] = IF o.entry = "filled" THEN Qty ELSE @,
                  !.ev.entryOrders = @ + 1], LAMBDA w2 :
  Bind(waitAndConfirmPosition(o.polls, w2.exPos[signal.symbol] # 0), LAMBDA confirmed :
  IF confirmed = "false"
  THEN LateFill(OpenEnded(NotConfirmed(OpenFailed(w2)), signal.symbol), signal.symbol, o)
  ELSE IF confirmed = "throw"
  THEN LateFill(OpenEnded(OpenFailed(w2), signal.symbol), signal.symbol, o)
  ELSE IF ~o.fetch2 THEN OpenEnded(OpenFailed(w2), signal.symbol)
  ELSE IF ~o.stop THEN OpenEnded(OpenFailed(w2), signal.symbol) ELSE
  Bind(exStopLossOrder(w2, signal.symbol, stopLoss), LAMBDA w3 :
  Bind([symbol |-> signal.symbol,
        direction |-> signal.direction,
        entryPrice |-> signal.price,
        quantity |-> Qty,
        stopLoss |-> stopLoss,
        takeProfit1 |-> calculateTakeProfit(signal.price, stopLoss, signal.direction, 1),
        takeProfit2 |-> calculateTakeProfit(signal.price, stopLoss, signal.direction, 2),
        openTime |-> w.now,
        stopLossOrderId |-> w3.ret,
        lastStopLossUpdate |-> 0], LAMBDA position :
  Bind(SetSt(w3, "op", [St(w3, "op") EXCEPT !.currentPosition = position,
                                            !.status = "POSITION",
                                            !.todayTrades = @ + 1]), LAMBDA w4 :
  IF ~o.save THEN OpenEnded(OpenFailed(w4), signal.symbol)
  ELSE OpenEnded([saveBotState(w4, "op") EXCEPT !.ev.opened = TRUE], signal.symbol)))))))))

(***************************************************************************)
(* core/state-manager.ts and core/scanner.ts                               *)
(***************************************************************************)
\* wasRunning is what line 115 reads, before the first await of the caller's
\* chain: initialize reads it from the state it has just loaded; in a tick
\* it is read in the same synchronous stretch as scanLoop's isRunning test
\* (scanner.ts 78, 109-110), so a stop() issued during the tick comes after it.
StateManager_resetDailyState(w, wasRunning) ==
  LET s == St(w, "sm")
      r == [s EXCEPT !.todayTrades = 0,
                     !.dailyPnL = 0,
                     !.lastResetDate = w.today,
                     !.allowNewTrades = TRUE,
                     !.cbTriggered = FALSE,
                     !.consecutiveLosses = 0,
                     !.isRunning = IF wasRunning THEN @ ELSE TRUE,
                     !.status = IF wasRunning THEN @ ELSE "MONITORING"]
  IN [saveBotState(SetSt(w, "sm", r), "sm") EXCEPT
        !.ev.dailyReset = TRUE,
        !.ev.breakerCleared = s.cbTriggered,
        !.ev.resetSaw = [status |-> s.status, isRunning |-> wasRunning,
                         cbTriggered |-> s.cbTriggered, todayTrades |-> s.todayTrades,
                         lastResetDate |-> s.lastResetDate]]

FuturesBot_resetDailyState(w, wasRunning) ==
  syncStateToModules(StateManager_resetDailyState(w, wasRunning))

\* The loop over config.symbols from index i; outs[i] is what analyzeSymbol
\* returns for the i-th symbol ("none", "throw", or a signal) and how the
\* calls of openPosition go.  An exception of openPosition is caught by the
\* per-symbol try/catch and the loop goes on.
RECURSIVE ScanSymbolsFrom(_, _, _)
ScanSymbolsFrom(w, i, outs) ==
  IF i > Len(Symbols) THEN w
  ELSE Bind(outs[i], LAMBDA a :
       Bind([w EXCEPT !.ev.scanned = i], LAMBDA wi :
       IF a.an \in {"none", "throw"}
       THEN ScanSymbolsFrom(wi, i + 1, outs)
       ELSE Bind([symbol |-> Symbols[i], direction |-> a.an,
                  price |-> a.price, atr |-> a.atr], LAMBDA signal :
            Bind(openPosition(wi, signal, a), LAMBDA w1 :
            IF w1.thrown
            THEN ScanSymbolsFrom(Caught(w1), i + 1, outs)
            ELSE w1))))

scanForOpportunities(w, outs) ==
  IF ~St(w, "sc").allowNewTrades THEN w
  ELSE IF ~checkDailyTradeLimit(St(w, "sc").todayTrades, w.config.riskConfig)
       THEN saveBotState(SetSt(w, "sc", [St(w, "sc") EXCEPT !.allowNewTrades = FALSE]), "sc")
       ELSE ScanSymbolsFrom(w, 1, outs)

\* (variant: without the test of the circuit breaker)
scan_noBreakerTest(w, o, outs) ==
  Bind(IF shouldResetDailyState(w, St(w, "sc").lastResetDate)
       THEN FuturesBot_resetDailyState(w, TRUE) ELSE w, LAMBDA w1 :
  IF shouldForceLiquidate(w1.clock, w1.config.riskConfig) /\ HasPos(St(w1, "sc"))
  THEN closePositionIfExists([w1 EXCEPT !.ev.branch = "force"], "FORCED", o)
  ELSE IF HasPos(St(w1, "sc"))
       THEN FuturesBot_monitorPosition([w1 EXCEPT !.ev.branch = "monitor"], o)
  ELSE scanForOpportunities([w1 EXCEPT !.ev.branch = "scan"], outs))

\* MarketScanner.scan; the branch taken is noted in ev.branch.
scan(w, o, outs) ==
  Bind(IF shouldResetDailyState(w, St(w, "sc").lastResetDate)
       THEN FuturesBot_resetDailyState(w, TRUE) ELSE w, LAMBDA w1 :
  IF St(w1, "sc").cbTriggered
  THEN [saveBotState(SetSt(w1, "sc", [St(w1, "sc") EXCEPT !.status = "HALTED",
                                                           !.isRunning = FALSE]), "sc")
          EXCEPT !.ev.branch = "halt"]
  ELSE IF shouldForceLiquidate(w1.clock, w1.config.riskConfig) /\ HasPos(St(w1, "sc"))
       THEN closePositionIfExists([w1 EXCEPT !.ev.branch = "force"], "FORCED", o)
  ELSE IF HasPos(St(w1, "sc"))
       THEN FuturesBot_monitorPosition([w1 EXCEPT !.ev.branch = "monitor"], o)
  ELSE scanForOpportunities([w1 EXCEPT !.ev.branch = "scan"], outs))

\* scanLoop up to its first await: the latch is taken and the tick begins.
\* `at` is the time at which the invocation runs.
\* (variant: without the isScanning latch)
scanLoopEnter_noLatch(w, at) ==
  IF ~St(w, "sc").isRunning THEN w
  ELSE [w EXCEPT !.isScanning = TRUE, !.pc = "scan", !.now = at]

scanLoopEnter(w, at) ==
  IF ~St(w, "sc").isRunning THEN w
  ELSE IF w.isScanning THEN [w EXCEPT !.ev.dropped = TRUE]
  ELSE [w EXCEPT !.isScanning = TRUE, !.pc = "scan", !.now = at]

startScanLoop(w, at) ==
  IF ~St(w, "sc").isRunning THEN w ELSE scanLoopEnter(w, at)

stopScanLoop(w) ==
  IF w.handleLive
  THEN [w EXCEPT !.timers = @ - 1, !.handleLive = FALSE]
  ELSE w

MergeConfig(c, patch) == [k \in DOMAIN c |-> IF k \in DOMAIN patch THEN patch[k] ELSE c[k]]

StateManager_updateConfig(w, patch) ==
  Bind(MergeConfig(w.config, patch), LAMBDA c :
  Bind([w EXCEPT !.config = c, !.configFile = c], LAMBDA w1 :
  Bind(checkDailyTradeLimit(St(w1, "sm").todayTrades, c.riskConfig), LAMBDA dailyLimitPassed :
  saveBotState(SetSt(w1, "sm", [St(w1, "sm") EXCEPT !.allowNewTrades = dailyLimitPassed]),
               "sm"))))

FuturesBot_updateConfig(w, patch) == syncStateToModules(StateManager_updateConfig(w, patch))

\* (variant: the saved state is not loaded; the default state is saved)
StateManager_initialize_noLoad(w) ==
  Bind(IF "scanInterval" \in DOMAIN w.configFile
       THEN [w EXCEPT !.config = w.configFile]
       ELSE [w EXCEPT !.configFile = w.config], LAMBDA w1 :
  Bind(saveBotState(w1, "sm"), LAMBDA w2 :
  Bind(IF shouldResetDailyState(w2, St(w2, "sm").lastResetDate)
       THEN StateManager_resetDailyState(w2, St(w2, "sm").isRunning) ELSE w2, LAMBDA w3 :
  Bind(updateTotalStatsInState(w3), LAMBDA w4 :
  IF w4.ret.status # "NOFILE" THEN NewObj(w4, "sm", w4.ret) ELSE w4))))

StateManager_initialize(w) ==
  Bind(IF "scanInterval" \in DOMAIN w.configFile
       THEN [w EXCEPT !.config = w.configFile]
       ELSE [w EXCEPT !.configFile = w.config], LAMBDA w1 :
  Bind(IF loadBotState(w1).status # "NOFILE"
       THEN NewObj(w1, "sm", loadBotState(w1))
       ELSE saveBotState(w1, "sm"), LAMBDA w2 :
  Bind(IF shouldResetDailyState(w2, St(w2, "sm").lastResetDate)
       THEN StateManager_resetDailyState(w2, St(w2, "sm").isRunning) ELSE w2, LAMBDA w3 :
  Bind(updateTotalStatsInState(w3), LAMBDA w4 :
  IF w4.ret.status # "NOFILE" THEN NewObj(w4, "sm", w4.ret) ELSE w4))))

FuturesBot_initialize(w, at) ==
  IF w.isInitialized THEN w
  ELSE Bind(syncStateToModules(StateManager_initialize(w)), LAMBDA w1 :
       Bind(St(w1, "sm"), LAMBDA s :
       Bind(IF s.isRunning /\ s.status \in {"MONITORING", "POSITION"}
            THEN startScanLoop(w1, at) ELSE w1, LAMBDA w2 :
       [w2 EXCEPT !.isInitialized = TRUE])))

\* (variant: without the early return of a running engine)
FuturesBot_start_always(w, at) ==
  LET s == St(w, "sm")
      s1 == [s EXCEPT !.cbTriggered = FALSE,
                      !.consecutiveLosses = IF s.cbTriggered THEN 0 ELSE @,
                      !.isRunning = TRUE,
                      !.status = "MONITORING"]
  IN startScanLoop(syncStateToModules(saveBotState(SetSt(w, "sm", s1), "sm")), at)

\* ev.startCase notes what start() found: a running engine, a tripped
\* breaker, or a stopped engine.
FuturesBot_start(w, at) ==
  LET s == St(w, "sm")
      s1 == [s EXCEPT !.cbTriggered = FALSE,
                      !.consecutiveLosses = IF s.cbTriggered THEN 0 ELSE @,
                      !.isRunning = TRUE,
                      !.status = "MONITORING"]
  IN IF s.isRunning /\ ~s.cbTriggered THEN [w EXCEPT !.ev.startCase = "running"]
     ELSE startScanLoop(
            syncStateToModules(
              saveBotState(SetSt([w EXCEPT !.ev.startCase =
                                     IF s.cbTriggered THEN "breaker" ELSE "stopped"],
                                 "sm", s1), "sm")), at)

\* (variant: stop() drops the position it holds)
FuturesBot_stop_clearing(w) ==
  syncStateToModules(saveBotState(
    SetSt(stopScanLoop(w), "sm", [St(w, "sm") EXCEPT !.isRunning = FALSE,
                                                     !.status = "IDLE",
                                                     !.currentPosition = NoPos]), "sm"))

FuturesBot_stop(w) ==
  Bind(SetSt(w, "sm", [St(w, "sm") EXCEPT !.isRunning = FALSE]), LAMBDA w1 :
  Bind(stopScanLoop(w1), LAMBDA w2 :
  Bind(SetSt(w2, "sm", [St(w2, "sm") EXCEPT !.status = "IDLE"]), LAMBDA w3 :
  syncStateToModules(saveBotState(w3, "sm")))))

\* The rest of scanLoop after scan() returned or threw.
scanLoopFinish(w) ==
  Bind([w EXCEPT !.isScanning = FALSE, !.pc = "idle"], LAMBDA w1 :
  Bind(IF HasPos(St(w1, "sc")) THEN w1.config.positionScanInterval
       ELSE w1.config.scanInterval, LAMBDA interval :
  IF St(w1, "sc").isRunning
  THEN [w1 EXCEPT !.timers = @ + 1, !.handleLive = TRUE, !.timerDue = w1.now + interval]
  ELSE w1))

(***************************************************************************)
(* Observations and inputs                                                 *)
(***************************************************************************)
EvNone(op) ==
  [op |-> op, branch |-> "", scanned |-> 0,
   closeTried |-> FALSE, closeKind |-> "none", closeDone |-> FALSE,
   dailyBefore |-> 0, lossesBefore |-> 0, rowPnl |-> 0, exitPrice |-> 0, rows |-> 0,
   inconsistent |-> FALSE, trailTried |-> FALSE, stopMoved |-> FALSE,
   openAttempts |-> 0, attemptInCooldown |-> FALSE, attemptWithBreaker |-> FALSE,
   entryOrders |-> 0, notConfirmed |-> FALSE, opened |-> FALSE, dailyReset |-> FALSE,
   breakerCleared |-> FALSE, stopFilled |-> FALSE, marketPrice |-> 0,
   failThrown |-> FALSE,
   failStatus |-> "", failHasPos |-> FALSE, failTrades |-> 0, failRows |-> 0,
   tradesBefore |-> 0, rowsBefore |-> 0, opens |-> <<>>,
   dropped |-> FALSE, startCase |-> "",
   clock |-> Noon, closeReason |-> "", monitored |-> FALSE, failed |-> "",
   exit |-> [evaluated |-> FALSE, profit |-> 0, risk |-> 0,
             indicators |-> FALSE, timeout |-> FALSE,
             tp2 |-> FALSE, tp1 |-> FALSE],
   resetSaw |-> [status |-> "", isRunning |-> FALSE, cbTriggered |-> FALSE,
                 todayTrades |-> 0, lastResetDate |-> 0]]

\* Closed stop orders no state object or file refers to cannot be observed.
Prune(w) ==
  [w EXCEPT !.stops = {o \in w.stops : o.status = "open" \/ o.id \in Referenced(w)}]

\* The due time of a timeout that is no longer pending cannot be observed.
Settle(w) == IF w.timers = 0 THEN [w EXCEPT !.timerDue = 0] ELSE w

\* The variables take the values of the world a handler leaves behind.
Assign(w) ==
  /\ heap' = w.heap /\ ref' = w.ref /\ config' = w.config
  /\ isInitialized' = w.isInitialized /\ isScanning' = w.isScanning /\ pc' = w.pc
  /\ timers' = w.timers /\ handleLive' = w.handleLive /\ timerDue' = w.timerDue
  /\ now' = w.now /\ today' = w.today
  /\ stateFile' = w.stateFile /\ configFile' = w.configFile /\ histFile' = w.histFile
  /\ exPos' = w.exPos /\ stops' = w.stops
  /\ restarts' = w.restarts /\ ev' = w.ev
  /\ advisor' = advisor /\ entryLeverage' = entryLeverage /\ stream' = stream

Apply(w0) == Assign(Settle(Prune(Canon(w0))))

Begin(op) == [World EXCEPT !.ev = EvNone(op)]

Bools == {TRUE, FALSE}

\* Readings of the wall clock: the default force-liquidate time (23:30),
\* the minute before, the end of that hour, and the same minutes of
\* another hour.
ForceTime == [hour |-> 23, minute |-> 30]
Clocks == {[hour |-> 23, minute |-> 29], ForceTime, [hour |-> 23, minute |-> 59],
           [hour |-> 22, minute |-> 45], Noon}
PricesOrFail == Prices \cup {Fail}
BalancesOrFail == Balances \cup {Fail}
Inds == [atr : ATRs, adxDec : Bools, tp2Other : Bools]

\* Outcomes of the exchange calls of a monitor or close.
DefO ==
  [fetchPos |-> TRUE, fetchOrder |-> TRUE, cancel |-> TRUE, price |-> 200, bal |-> 1000,
   mprice |-> 200, indOk |-> TRUE, ind |-> [atr |-> 2, adxDec |-> FALSE, tp2Other |-> FALSE],
   stop |-> TRUE, market |-> TRUE]

\* closePosition: the market order fails, or fetchPrice fails, or both work
\* and fetchBalance answers or fails; the cancels work or not.
CloseOutcomes ==
  {[DefO EXCEPT !.market = FALSE], [DefO EXCEPT !.price = Fail]}
  \cup {[DefO EXCEPT !.price = p, !.bal = b] : p \in Prices, b \in BalancesOrFail}

\* handleCompensatedClose: fetchOrder and cancelOrder work or not.
CompensateOutcomes ==
  {[DefO EXCEPT !.fetchOrder = f, !.cancel = c, !.price = p, !.bal = b] :
     f \in Bools, c \in Bools, p \in PricesOrFail, b \in BalancesOrFail}

\* monitorPosition: the price, and the indicators when they are computed.
MonitorOutcomes ==
  {[DefO EXCEPT !.mprice = Fail]}
  \cup {[DefO EXCEPT !.mprice = p, !.indOk = FALSE] : p \in Prices}
  \cup {[DefO EXCEPT !.mprice = p, !.ind = i] : p \in Prices, i \in Inds}

With(o, c) ==
  [o EXCEPT !.cancel = c.cancel, !.market = c.market, !.price = c.price, !.bal = c.bal]

\* What analyzeSymbol returns for a symbol and how openPosition goes.
DefA ==
  [an |-> "none", price |-> 200, atr |-> 6, bal |-> 1000, pre |-> TRUE,
   entry |-> "filled", polls |-> <<TRUE, TRUE, TRUE>>, fetch2 |-> TRUE, stop |-> TRUE,
   save |-> TRUE]
OpenOutcomes ==
  {[DefA EXCEPT !.bal = b] : b \in BalancesOrFail}
  \cup {[DefA EXCEPT !.pre = FALSE], [DefA EXCEPT !.entry = "rejected"],
        [DefA EXCEPT !.fetch2 = FALSE], [DefA EXCEPT !.stop = FALSE],
        [DefA EXCEPT !.save = FALSE],
        [DefA EXCEPT !.polls = <<FALSE, FALSE, TRUE>>],
        [DefA EXCEPT !.polls = <<FALSE, FALSE, FALSE>>],
        [DefA EXCEPT !.entry = "pending"], [DefA EXCEPT !.entry = "late"],
        [DefA EXCEPT !.entry = "pending", !.polls = <<TRUE, FALSE, TRUE>>]}
SymOutcomes ==
  {[DefA EXCEPT !.an = "none"], [DefA EXCEPT !.an = "throw"]}
  \cup {[a EXCEPT !.an = d, !.price = p, !.atr = t] :
          a \in OpenOutcomes, d \in {"LONG", "SHORT"}, p \in EntryPrices, t \in EntryATRs}
\* The next symbol after a symbol without signal, or after a failed opening.
SecondOutcomes(a1) ==
  IF a1.an \in {"none", "throw"} THEN SymOutcomes
  ELSE {a \in SymOutcomes : a.an = "none" \/ (a.an = "LONG" /\ a = [DefA EXCEPT !.an = "LONG"])}
DefOuts == <<DefA, DefA>>

ConfigPatches ==
  {[riskConfig |-> [DefaultRiskConfig EXCEPT !.consecutiveLossesThreshold = PatchedLosses]]}

(***************************************************************************)
(* utils/ai-analysis.ts and core/analyzer.ts: the advisory service         *)
(*   resp.kind : "reject" (fetch rejects: network error or timeout),       *)
(*               "httpError" (response.ok is false),                       *)
(*               "badBody" (the body is not JSON),                         *)
(*               "noContent" (a JSON body without choices[0].message       *)
(*               .content), "badContent" (the content is not JSON),        *)
(*               "answer" (the content is a JSON object: resp.reply,       *)
(*               "" and 0 standing for absent fields)                      *)
(*   m         : what the market data gives: the fetches succeed, the ADX  *)
(*               gate, the trend direction, candles present, the entry     *)
(*               gate, and the results of                                  *)
(*               calculateTechnicalWeightAdjustment (confAdj, scoreAdj)    *)
(*               and the risk shift the indicators call for                *)
(***************************************************************************)
RiskRank(r) == IF r = "LOW" THEN 1 ELSE IF r = "MEDIUM" THEN 2 ELSE 3

\* catch (lines 576-597): the result of a failed call
Sentinel == [direction |-> "IDLE", confidence |-> 0, score |-> 0, riskLevel |-> "HIGH"]

EmptyReply == [direction |-> "", confidence |-> 0, score |-> 0, riskLevel |-> ""]

\* The analysis built from aiResult (lines 537-556): `field || default`.
ParseReply(r) ==
  [direction |-> IF r.direction = "" THEN "IDLE" ELSE r.direction,
   confidence |-> Min(100, Max(0, r.confidence)),
   score |-> Min(100, Max(0, r.score)),
   riskLevel |-> IF r.riskLevel = "" THEN "MEDIUM" ELSE r.riskLevel]

applyTechnicalWeightAdjustment(a, m) ==
  [a EXCEPT !.confidence = Min(100, Max(0, a.confidence + m.confAdj)),
            !.score = Min(100, Max(0, a.score + m.scoreAdj)),
            !.riskLevel =
               IF m.riskShift = "down"
               THEN (IF @ = "HIGH" THEN "MEDIUM" ELSE IF @ = "MEDIUM" THEN "LOW" ELSE @)
               ELSE IF m.riskShift = "up"
               THEN (IF @ = "LOW" THEN "MEDIUM" ELSE IF @ = "MEDIUM" THEN "HIGH" ELSE @)
               ELSE @]

\* The statements of the try block that throw.
AiCallThrows(resp) == resp.kind \in {"reject", "httpError", "badBody", "badContent"}

\* The cache key is symbol_<10-minute bucket>: an entry is found only in the
\* bucket it was stored in.  Result: the cache, the analysis returned, and
\* whether the service was queried.
analyzeMarketWithAI(adv, symbol, m, resp) ==
  IF adv.cache[symbol].bucket = adv.bucket
  THEN [cache |-> adv.cache, data |-> adv.cache[symbol].data, queried |-> FALSE]
  ELSE IF AiCallThrows(resp)
  THEN [cache |-> adv.cache, data |-> Sentinel, queried |-> TRUE]
  ELSE LET final == applyTechnicalWeightAdjustment(
                      ParseReply(IF resp.kind = "noContent" THEN EmptyReply
                                 ELSE resp.reply), m)
       IN [cache |-> [adv.cache EXCEPT ![symbol] = [bucket |-> adv.bucket, data |-> final]],
           data |-> final, queried |-> TRUE]

checkAIAnalysisConditions(aiAnalysis, minConfidence, maxRiskLevel) ==
  /\ aiAnalysis.score >= minConfidence
  /\ aiAnalysis.direction # "IDLE"
  /\ aiAnalysis.confidence >= minConfidence
  /\ RiskRank(aiAnalysis.riskLevel) <= RiskRank(maxRiskLevel)

\* MarketAnalyzer.analyzeSymbol: "none" for null, else the signal's direction.
analyzeSymbol(adv, symbol, m, aiConfig, resp) ==
  LET ai == analyzeMarketWithAI(adv, symbol, m, resp)
      none == [cache |-> adv.cache, signal |-> "none", asked |-> FALSE,
               queried |-> FALSE, data |-> Sentinel]
  IN IF ~m.fetchOk THEN none
     ELSE IF ~m.adxPassed THEN none
     ELSE IF m.direction = "IDLE" THEN none
     ELSE IF ~m.candles THEN none
     ELSE IF ~m.entryOk THEN none
     ELSE IF aiConfig.enabled /\ aiConfig.useForEntry
     THEN [cache |-> ai.cache,
           signal |-> IF checkAIAnalysisConditions(ai.data, aiConfig.minConfidence,
                                                   aiConfig.maxRiskLevel)
                      THEN m.direction ELSE "none",
           asked |-> TRUE, queried |-> ai.queried, data |-> ai.data]
     ELSE [none EXCEPT !.signal = m.direction]

NoEntry == [bucket |-> 0 - 1, data |-> Sentinel]
NoCall ==
  [asked |-> FALSE, queried |-> FALSE, kind |-> "", data |-> Sentinel,
   signal |-> "none", gates |-> FALSE, enabled |-> FALSE]
AdvisorInit == [bucket |-> 0, cache |-> [s \in SymbolSet |-> NoEntry], last |-> NoCall]

Replies ==
  {[direction |-> "LONG", confidence |-> 80, score |-> 70, riskLevel |-> "MEDIUM"],
   [direction |-> "SHORT", confidence |-> 50, score |-> 70, riskLevel |-> "HIGH"]}
Responses ==
  {[kind |-> k, reply |-> EmptyReply] :
     k \in {"reject", "httpError", "badBody", "noContent", "badContent"}}
  \cup {[kind |-> "answer", reply |-> r] : r \in Replies}
DefM ==
  [fetchOk |-> TRUE, adxPassed |-> TRUE, direction |-> "LONG", candles |-> TRUE,
   entryOk |-> TRUE, confAdj |-> 0, scoreAdj |-> 0, riskShift |-> "none"]
Markets ==
  {[DefM EXCEPT !.fetchOk = FALSE], [DefM EXCEPT !.adxPassed = FALSE],
   [DefM EXCEPT !.direction = "IDLE"], [DefM EXCEPT !.candles = FALSE],
   [DefM EXCEPT !.entryOk = FALSE]}
  \cup {DefM, [DefM EXCEPT !.direction = "SHORT", !.confAdj = 30, !.scoreAdj = 25,
                            !.riskShift = "down"]}
AiConfigs ==
  {[enabled |-> e, useForEntry |-> TRUE, minConfidence |-> 60, maxRiskLevel |-> "MEDIUM"] :
     e \in Bools}

(***************************************************************************)
(* utils/dynamic-leverage.ts and the leverage selection of openPosition.   *)
(* Multipliers are kept in tenths (1.5 is 15), the confidence factor       *)
(* 0.5 + confidence/100 in hundredths; every product the code rounds is a  *)
(* multiple of 1/1000, and the ties (x.5) among them are exact in binary   *)
(* floating point for the configurations below.                            *)
(***************************************************************************)
RiskLevels == {"LOW", "MEDIUM", "HIGH"}
Confidences == 0..100      \* ai-analysis.ts clamps the confidence to 0..100

\* Math.round(n / d) for d > 0: the nearest integer, ties upwards.
MathRound(n, d) == (2 * n + d) \div (2 * d)

\* storage.ts getDefaultConfig().dynamicLeverageConfig
DefaultDynamicLeverageConfig ==
  [enabled |-> TRUE, minLeverage |-> 2, maxLeverage |-> 20, baseLeverage |-> 6,
   hasMultipliers |-> TRUE,
   riskLevelMultipliers |-> [LOW |-> 15, MEDIUM |-> 10, HIGH |-> 5]]

\* The leverage part of a BotConfig: the defaults, and what the operator
\* may save through updateConfig (a patch replaces dynamicLeverageConfig as
\* a whole, so a patch without riskLevelMultipliers leaves it undefined).
DefaultLeverageConfig ==
  [leverage |-> 10, maxRiskPercentage |-> 20,
   dynamicLeverageConfig |-> DefaultDynamicLeverageConfig]
LeverageConfigs ==
  {DefaultLeverageConfig,
   [DefaultLeverageConfig EXCEPT !.dynamicLeverageConfig.enabled = FALSE],
   [DefaultLeverageConfig EXCEPT !.dynamicLeverageConfig.hasMultipliers = FALSE],
   [DefaultLeverageConfig EXCEPT !.maxRiskPercentage = 2,
                                 !.dynamicLeverageConfig.minLeverage = 3,
                                 !.dynamicLeverageConfig.maxLeverage = 10],
   [DefaultLeverageConfig EXCEPT !.dynamicLeverageConfig.baseLeverage = 5,
       !.dynamicLeverageConfig.riskLevelMultipliers = [LOW |-> 30, MEDIUM |-> 20, HIGH |-> 10]]}

\* Reading a property of the undefined riskLevelMultipliers throws (Fail).
calculateQuickLeverage(aiAnalysis, cfg) ==
  IF ~cfg.hasMultipliers THEN Fail
  ELSE LET m == cfg.riskLevelMultipliers[aiAnalysis.riskLevel]
           riskFactor == IF m = 0 THEN 10 ELSE m
           \* baseLeverage * (0.5 + confidence / 100) * riskFactor, in 1/1000
           leverage == cfg.baseLeverage * (50 + aiAnalysis.confidence) * riskFactor
       IN MathRound(Max(cfg.minLeverage * 1000, Min(cfg.maxLeverage * 1000, leverage)), 1000)

calculateSafeLeverage(accountBalance, maxRiskPercentage, stopLossPrice, entryPrice) ==
  IF accountBalance <= 0 THEN 1
  ELSE IF Abs(entryPrice - stopLossPrice) = 0 THEN 1
  ELSE \* (maxRiskPercentage / 100) / (|entry - stop| / entry)
       Max(1, Min(20, MathRound(maxRiskPercentage * entryPrice,
                                100 * Abs(entryPrice - stopLossPrice))))

\* (variant: the result is not brought into the configured range)
calculateFinalLeverage_unclamped(dynamicLeverage, safeLeverage, cfg) ==
  Min(dynamicLeverage, safeLeverage)

calculateFinalLeverage(dynamicLeverage, safeLeverage, cfg) ==
  Max(cfg.minLeverage, Min(cfg.maxLeverage, Min(dynamicLeverage, safeLeverage)))

\* openPosition, from `let finalLeverage = this.config.leverage` to
\* setLeverage: the leverage sent to the exchange and how it was found.
NoLeverage ==
  [called |-> FALSE, botConfig |-> DefaultLeverageConfig, hasAi |-> FALSE,
   aiAnalysis |-> [confidence |-> 0, riskLevel |-> "MEDIUM"],
   balance |-> 0, price |-> 0, stopLoss |-> 0,
   path |-> "none", dynamicLeverage |-> 0, safeLeverage |-> 0, finalLeverage |-> 0]

selectLeverage(botConfig, signal, account, stopLoss) ==
  LET cfg == botConfig.dynamicLeverageConfig
      call == [NoLeverage EXCEPT !.called = TRUE, !.botConfig = botConfig,
                 !.hasAi = signal.hasAi, !.aiAnalysis = signal.aiAnalysis,
                 !.balance = account, !.price = signal.price, !.stopLoss = stopLoss]
      dynamicLeverage == calculateQuickLeverage(signal.aiAnalysis, cfg)
      safeLeverage == calculateSafeLeverage(account, botConfig.maxRiskPercentage,
                                            stopLoss, signal.price)
  IN IF cfg.enabled /\ signal.hasAi
     THEN IF dynamicLeverage = Fail
          THEN [call EXCEPT !.path = "failed", !.finalLeverage = botConfig.leverage]
          ELSE [call EXCEPT !.path = "dynamic", !.dynamicLeverage = dynamicLeverage,
                  !.safeLeverage = safeLeverage,
                  !.finalLeverage = calculateFinalLeverage(dynamicLeverage, safeLeverage, cfg)]
     ELSE [call EXCEPT !.path = "static", !.finalLeverage = botConfig.leverage]

\* The signals and accounts openPosition computes a leverage for: the
\* balance has passed the 120 USDT test, the stop is calculateStopLoss's.
LeverageBalances == {120, 1000}
LeveragePrices == {200, 50000}
LeverageATRs == {2, 200, 1000}

(***************************************************************************)
(* utils/websocket.ts (BinanceWebSocketService), utils/websocket-manager.ts*)
(* (WebSocketManager) and services/price-service.ts (PriceService): the    *)
(* price stream.  A socket is connecting, open, closing (close() called or *)
(* an error raised, the close event still to come) or closed; the handlers *)
(* connect() attaches to a socket act on the service whether or not        *)
(* this.ws still designates it.                                            *)
(***************************************************************************)
MaxSockets == 2            \* sockets and connection timeouts alive at once
SocketIds == 1..MaxSockets
MaxReconnectAttempts == 5  \* WebSocketManager: maxReconnectAttempts
ReconnectInterval == 3000  \* WebSocketManager: reconnectInterval (ms)
StreamPrice == 201         \* the price a ticker carries
RestPrice == 202           \* the price fetchPrice returns

\* Symbols as the callers spell them: config.symbols, and the exchange's own spelling.
BotSymbols == {"BTC/USDT"}
StreamKeys == {"BTC/USDT", "BTCUSDT"}

\* symbol.replace('/', '').toLowerCase()
formatSymbolForWebSocket(symbol) ==
  CASE symbol = "BTC/USDT" -> "btcusdt"
    [] symbol = "BTCUSDT" -> "btcusdt"

\* The field `s` of the 24hrTicker events of a stream <symbol>@ticker.
TickerSymbolOf(wsSymbol) == CASE wsSymbol = "btcusdt" -> "BTCUSDT"

RECURSIVE Pow(_, _)
Pow(b, n) == IF n = 0 THEN 1 ELSE b * Pow(b, n - 1)

NoWaiter == [who |-> "none", socket |-> 0, key |-> "BTCUSDT"]
NoStreamOp == [op |-> "none", delivered |-> {}, source |-> "none", scheduled |-> FALSE,
               connected |-> FALSE]
NoPrice == [price |-> 0, fresh |-> FALSE]
StreamInit ==
  [status |-> "DISCONNECTED", reconnectAttempts |-> 0,
   ws |-> 0, sockets |-> [i \in SocketIds |-> "free"],
   subscribed |-> {},          \* sockets that were sent SUBSCRIBE btcusdt@ticker
   timeouts |-> {},            \* sockets whose connection timeout is pending
   reconnectTimer |-> FALSE,   \* this.reconnectTimer is not null
   handlePending |-> FALSE,    \* ... and its timeout has not run yet
   pending |-> 0,              \* reconnect timeouts that have not run yet
   delay |-> 0,                \* delay of the last one, in 1/16 ms
   connectedSymbols |-> {},
   servicePrice |-> 0,         \* BinanceWebSocketService.priceCache["BTCUSDT"]
   isInitialized |-> FALSE,    \* WebSocketManager
   subscribers |-> [k \in StreamKeys |-> {}],
   managerPrice |-> [k \in StreamKeys |-> 0],
   wsEnabled |-> FALSE,        \* PriceService
   priceCache |-> [k \in BotSymbols |-> NoPrice],
   waiting |-> NoWaiter,       \* the caller awaiting connect()
   userDisconnected |-> FALSE, \* disconnect() was the last explicit call
   tickFresh |-> FALSE,        \* a ticker arrived less than CACHE_TTL ago
   thrown |-> FALSE,
   last |-> NoStreamOp]

\* ws.close() of socket i.
SocketClose(s, i) ==
  IF i # 0 /\ s.sockets[i] \in {"connecting", "open"}
  THEN [s EXCEPT !.sockets[i] = "closing"] ELSE s

\* A closed socket nothing refers to any more is forgotten.
Forget(s) ==
  [s EXCEPT !.sockets = [i \in SocketIds |->
       IF s.sockets[i] = "closed" /\ i # s.ws /\ i \notin s.timeouts
       THEN "free" ELSE s.sockets[i]],
     !.subscribed = {i \in s.subscribed : s.sockets[i] \in {"open", "closing"}}]

updateStatus(s, status) == [s EXCEPT !.status = status]

clearReconnectTimer(s) ==
  IF s.reconnectTimer
  THEN [s EXCEPT !.pending = IF s.handlePending THEN @ - 1 ELSE @,
                 !.handlePending = FALSE, !.reconnectTimer = FALSE]
  ELSE s

\* reconnectInterval * 1.5^(attempts - 1), in 1/16 ms
ReconnectDelay(attempts) ==
  ReconnectInterval * Pow(3, attempts - 1) * Pow(2, MaxReconnectAttempts - attempts)

\* (variant: the earlier timeout is left pending)
scheduleReconnect_noClear(s) ==
  IF s.reconnectAttempts >= MaxReconnectAttempts THEN s
  ELSE [s EXCEPT !.reconnectAttempts = @ + 1,
                 !.delay = ReconnectDelay(s.reconnectAttempts + 1),
                 !.reconnectTimer = TRUE, !.handlePending = TRUE,
                 !.pending = @ + 1,
                 !.last.scheduled = TRUE]

scheduleReconnect(s) ==
  IF s.reconnectAttempts >= MaxReconnectAttempts THEN s
  ELSE LET s1 == clearReconnectTimer(s)
       IN [s1 EXCEPT !.reconnectAttempts = @ + 1,
                     !.delay = ReconnectDelay(s.reconnectAttempts + 1),
                     !.reconnectTimer = TRUE, !.handlePending = TRUE,
                     !.pending = @ + 1,
                     !.last.scheduled = TRUE]

\* connect(): the socket is created and its handlers and the connection
\* timeout are set; s.last.connected tells that a socket was created.
FreeSocket(s) == CHOOSE i \in SocketIds : s.sockets[i] = "free"
connect(s) ==
  IF s.status \in {"CONNECTED", "CONNECTING"} THEN s
  ELSE LET i == FreeSocket(s)
       IN [updateStatus(s, "CONNECTING") EXCEPT
             !.ws = i, !.sockets[i] = "connecting",
             !.timeouts = @ \cup {i},
             !.last.connected = TRUE]

\* The continuation of the caller that awaited connect(), once the promise
\* is settled.
subscribePrices(s, symbol) ==
  IF s.ws = 0 \/ s.status # "CONNECTED" THEN [s EXCEPT !.thrown = TRUE]
  ELSE IF symbol \in s.connectedSymbols THEN s
  ELSE IF s.sockets[s.ws] # "open" THEN [s EXCEPT !.thrown = TRUE]   \* ws.send
  ELSE [s EXCEPT !.subscribed = @ \cup {s.ws},
                 !.connectedSymbols = @ \cup {symbol}]

updatePriceCache(s, symbol, price) ==
  [s EXCEPT !.priceCache[symbol] = [price |-> price, fresh |-> TRUE]]

\* The callbacks: PriceService's stores the price under the symbol it
\* subscribed with, the API route's logs it.
Callback(s, cb, symbol, price) ==
  [(IF cb = "price" THEN updatePriceCache(s, symbol, price) ELSE s)
     EXCEPT !.last.delivered = @ \cup {<<symbol, cb>>}]

WebSocketManager_subscribePrice(s, symbol, cb) ==
  LET s1 == [s EXCEPT !.subscribers[symbol] = @ \cup {cb}]
      s2 == IF s1.managerPrice[symbol] # 0
            THEN Callback(s1, cb, symbol, s1.managerPrice[symbol]) ELSE s1
  IN subscribePrices(s2, symbol)

\* After `await webSocketManager.initialize()` returned or threw.
Continue(s, who, key, rejected) ==
  LET s0 == [s EXCEPT !.waiting = NoWaiter, !.thrown = FALSE]
  IN IF rejected
     THEN IF who = "price" THEN [s0 EXCEPT !.wsEnabled = FALSE] ELSE s0
     ELSE LET s1 == [s0 EXCEPT !.isInitialized = TRUE]
              s2 == WebSocketManager_subscribePrice(s1, key, who)
          IN IF who = "price"
             THEN [s2 EXCEPT !.wsEnabled = ~s2.thrown, !.thrown = FALSE]
             ELSE [s2 EXCEPT !.thrown = FALSE]

SettleWaiter(s, i, rejected) ==
  IF s.waiting.who # "none" /\ s.waiting.socket = i
  THEN Continue(s, s.waiting.who, s.waiting.key, rejected) ELSE s

\* webSocketManager.initialize() and what follows it in the caller:
\* PriceService.initializeWebSocket (who = "price") or the subscribe route
\* (who = "api").
Initialize(s, who, key) ==
  LET s0 == [s EXCEPT !.userDisconnected = FALSE]
  IN IF s0.isInitialized THEN Continue(s0, who, key, FALSE)
     ELSE LET s1 == connect(s0)
          IN IF s1.last.connected
             THEN [s1 EXCEPT !.waiting = [who |-> who, socket |-> s1.ws, key |-> key]]
             ELSE Continue(s1, who, key, FALSE)

onopen(s, i) ==
  LET s1 == [updateStatus(s, "CONNECTED") EXCEPT !.reconnectAttempts = 0,
                                                 !.sockets[i] = "open"]
  IN SettleWaiter(s1, i, FALSE)

onerror(s, i) ==
  SettleWaiter([updateStatus(s, "ERROR") EXCEPT !.sockets[i] = "closing"], i, TRUE)

onclose(s, i) ==
  Forget(scheduleReconnect([updateStatus(s, "DISCONNECTED") EXCEPT !.sockets[i] = "closed"]))

\* The timeout connect() sets for the socket i it created.
connectTimeout(s, i) ==
  LET s1 == [s EXCEPT !.timeouts = @ \ {i}]
  IN Forget(IF s1.status = "CONNECTING"
            THEN SettleWaiter(SocketClose(s1, s1.ws), i, TRUE) ELSE s1)

\* The callback of the reconnect timeout.
reconnectTimerCallback(s) ==
  LET s1 == [s EXCEPT !.pending = @ - 1,
                      !.handlePending = s.pending > 1 /\ s.handlePending]
  IN connect(updateStatus(s1, "RECONNECTING"))

disconnect(s) ==
  LET s1 == clearReconnectTimer(s)
      s2 == [SocketClose(s1, s1.ws) EXCEPT !.ws = 0]
  IN Forget([updateStatus(s2, "DISCONNECTED") EXCEPT !.userDisconnected = TRUE])

WebSocketManager_disconnect(s) ==
  [disconnect(s) EXCEPT !.subscribers = [k \in StreamKeys |-> {}],
                        !.managerPrice = [k \in StreamKeys |-> 0],
                        !.isInitialized = FALSE]

PriceService_disconnect(s) ==
  IF s.wsEnabled
  THEN [WebSocketManager_disconnect(s) EXCEPT
          !.wsEnabled = FALSE, !.priceCache = [k \in BotSymbols |-> NoPrice]]
  ELSE s

handlePriceUpdate(s, symbol, price) ==
  LET s1 == [s EXCEPT !.managerPrice[symbol] = price]
      cbs == s1.subscribers[symbol]
      s2 == IF "price" \in cbs THEN Callback(s1, "price", symbol, price) ELSE s1
  IN IF "api" \in cbs THEN Callback(s2, "api", symbol, price) ELSE s2

\* A 24hrTicker event; data.s is the exchange's spelling of the symbol.
handleTickerMessage(s, symbol, price) ==
  handlePriceUpdate([s EXCEPT !.servicePrice = price, !.tickFresh = TRUE], symbol, price)

PriceService_getPrice(s, symbol) ==
  IF s.wsEnabled /\ s.priceCache[symbol].price # 0 /\ s.priceCache[symbol].fresh
  THEN [s EXCEPT !.last.source = "cache"]
  ELSE [updatePriceCache(s, symbol, RestPrice) EXCEPT !.last.source = "rest"]

(***************************************************************************)
(* Initial state: a fresh deployment, no data files, flat account          *)
(***************************************************************************)
Init ==
  /\ heap = [i \in ObjIds |-> IF i = 1 THEN getDefaultState(0) ELSE FreeCell]
  /\ ref = [m \in Modules |-> 1]
  /\ config = getDefaultConfig
  /\ isInitialized = FALSE
  /\ isScanning = FALSE
  /\ pc = "idle"
  /\ timers = 0
  /\ handleLive = FALSE
  /\ timerDue = 0
  /\ now = 0
  /\ today = 0
  /\ stateFile = NoFile
  /\ configFile = NoFile
  /\ histFile = [ok |-> TRUE, rows |-> <<>>]
  /\ exPos = [s \in SymbolSet |-> 0]
  /\ stops = {}
  /\ restarts = 0
  /\ advisor = AdvisorInit
  /\ entryLeverage = NoLeverage
  /\ stream = StreamInit
  /\ ev = EvNone("init")

\* A data directory left by an earlier process.  Its state file records a
\* running engine that holds a position (opened at 200 with an ATR of 2), or
\* a state the engine did not write in this form (restored or edited by the
\* operator): a running engine with the breaker tripped, flat or with its
\* position.  The engine itself stops running in the very step that trips
\* the breaker.
StoredPosition ==
  [symbol |-> "BTC", direction |-> "LONG", entryPrice |-> 200, quantity |-> Qty,
   stopLoss |-> 197, takeProfit1 |-> 203, takeProfit2 |-> 206,
   openTime |-> 0, stopLossOrderId |-> 1, lastStopLossUpdate |-> 0]
StoredTripped ==
  [getDefaultState(0) EXCEPT !.status = "MONITORING", !.isRunning = TRUE,
                             !.cbTriggered = TRUE,
                             !.consecutiveLosses = DefConsecutiveLossesThreshold,
                             !.todayTrades = 1, !.dailyPnL = 0 - 3]
StoredHolding ==
  [getDefaultState(0) EXCEPT !.status = "POSITION", !.isRunning = TRUE,
                             !.currentPosition = StoredPosition, !.todayTrades = 1]
InitStored ==
  /\ heap = [i \in ObjIds |-> IF i = 1 THEN getDefaultState(0) ELSE FreeCell]
  /\ ref = [m \in Modules |-> 1]
  /\ config = getDefaultConfig
  /\ isInitialized = FALSE
  /\ isScanning = FALSE
  /\ pc = "idle"
  /\ timers = 0
  /\ handleLive = FALSE
  /\ timerDue = 0
  /\ now = 0
  /\ today = 0
  /\ configFile = NoFile
  /\ histFile = [ok |-> TRUE, rows |-> <<>>]
  /\ restarts = 0
  /\ advisor = AdvisorInit
  /\ entryLeverage = NoLeverage
  /\ stream = StreamInit
  /\ ev = EvNone("init")
  /\ \/ /\ stateFile = StoredTripped
        /\ exPos = [s \in SymbolSet |-> 0]
        /\ stops = {}
     \/ /\ stateFile \in {[StoredTripped EXCEPT !.status = "POSITION",
                                                !.currentPosition = StoredPosition],
                           StoredHolding}
        /\ exPos = [s \in SymbolSet |-> IF s = "BTC" THEN Qty ELSE 0]
        /\ stops = {[id |-> 1, symbol |-> "BTC", price |-> 197, status |-> "open"]}

\* Requests and events are considered as long as a tick can still follow.
InHorizon == now < MaxTime

(***************************************************************************)
(* HTTP handlers                                                           *)
(***************************************************************************)
\* POST /api/bot/start: initialize() then start()
ApiStart ==
  /\ now + OperatorDelay <= MaxTime
  /\ LET at == now + OperatorDelay
     IN Apply(FuturesBot_start(FuturesBot_initialize(Begin("start"), at), at))

\* POST /api/bot/stop (the dashboard has read the status before)
ApiStop ==
  /\ isInitialized
  /\ InHorizon
  /\ Apply(FuturesBot_stop(Begin("stop")))

\* GET /api/bot/status on a process that has not initialized yet
ApiStatus ==
  /\ ~isInitialized
  /\ now + OperatorDelay <= MaxTime
  /\ Apply(FuturesBot_initialize(Begin("status"), now + OperatorDelay))

\* PATCH /api/bot/config (the dashboard has read the status before)
ApiConfig ==
  \E patch \in ConfigPatches :
    /\ isInitialized
    /\ InHorizon
    /\ MergeConfig(config, patch) # config
    /\ Apply(FuturesBot_updateConfig(Begin("config"), patch))

(***************************************************************************)
(* The scan loop                                                           *)
(***************************************************************************)
\* The setTimeout callback runs scanLoop.
TimerFire ==
  /\ timers > 0
  /\ Max(now + 1, timerDue) <= MaxTime
  /\ LET w == [Begin("timer") EXCEPT !.timers = @ - 1,
                                     !.handleLive = IF timers = 1 THEN FALSE ELSE @]
     IN Apply(scanLoopEnter(w, Max(now + 1, timerDue)))

\* try { await scan() } catch { log } finally { ... }
Tick(clock, o, outs) ==
  scanLoopFinish(Caught(scan([Begin("tick") EXCEPT !.clock = clock, !.ev.clock = clock],
                             o, outs)))

Branch(clock) == Tick(clock, DefO, DefOuts).ev.branch

\* A tick at a given reading of the wall clock, by the branch scan() takes.
TickForceAt(clock) ==
  /\ pc = "scan"
  /\ Branch(clock) = "force"
  /\ \E o \in CloseOutcomes : Apply(Tick(clock, o, DefOuts))

TickMonitorAt(clock) ==
  /\ pc = "scan"
  /\ Branch(clock) = "monitor"
  /\ \/ Apply(Tick(clock, [DefO EXCEPT !.fetchPos = FALSE], DefOuts))
     \/ /\ Tick(clock, DefO, DefOuts).ev.inconsistent
        /\ \E o \in CompensateOutcomes : Apply(Tick(clock, o, DefOuts))
     \/ /\ ~Tick(clock, DefO, DefOuts).ev.inconsistent
        /\ \E o1 \in MonitorOutcomes :
             LET t1 == Tick(clock, o1, DefOuts)
             IN IF t1.ev.closeTried
                THEN \E c \in CloseOutcomes : Apply(Tick(clock, With(o1, c), DefOuts))
                ELSE IF t1.ev.trailTried
                THEN \E st \in Bools : Apply(Tick(clock, [o1 EXCEPT !.stop = st], DefOuts))
                ELSE Apply(t1)

TickScanAt(clock) ==
  /\ pc = "scan"
  /\ Branch(clock) \in {"scan", "halt"}
  /\ \E a1 \in SymOutcomes :
       LET t1 == Tick(clock, DefO, <<a1, DefA>>)
       IN IF t1.ev.scanned = 2
          THEN \E a2 \in SecondOutcomes(a1) : Apply(Tick(clock, DefO, <<a1, a2>>))
          ELSE Apply(t1)

TickForce == TickForceAt(ForceTime)
TickMonitor == TickMonitorAt(Noon)
TickScan == TickScanAt(Noon)

\* The same ticks at every reading of the wall clock.
TickForceClock == \E clock \in Clocks : TickForceAt(clock)
TickMonitorClock == \E clock \in Clocks : TickMonitorAt(clock)
TickScanClock == \E clock \in Clocks : TickScanAt(clock)

(***************************************************************************)
(* The environment                                                         *)
(***************************************************************************)
\* The exchange triggers an open stop order of a held symbol at its price.
StopFill ==
  \E o \in stops :
    /\ pc = "idle" /\ InHorizon
    /\ o.status = "open"
    /\ exPos[o.symbol] # 0
    /\ Apply([Begin("stopFill") EXCEPT
                !.stops = (stops \ {o}) \cup {[o EXCEPT !.status = "closed"]},
                !.exPos[o.symbol] = 0])

\* The position is closed outside the bot (manually or by liquidation).
ExternalClose ==
  \E s \in SymbolSet :
    /\ pc = "idle" /\ InHorizon
    /\ exPos[s] # 0
    /\ Apply([Begin("externalClose") EXCEPT !.exPos[s] = 0])

\* The calendar date changes.
Midnight ==
  /\ pc = "idle" /\ InHorizon
  /\ today < MaxDay
  /\ Apply([Begin("midnight") EXCEPT !.today = today + 1])

\* The history file is left unparseable (a torn or hand-edited file).
CorruptHistory ==
  /\ pc = "idle" /\ InHorizon
  /\ histFile.ok
  /\ histFile.rows # <<>>
  /\ Apply([Begin("corrupt") EXCEPT !.histFile.ok = FALSE])

\* A new process: every module starts from the default state and
\* configuration, nothing is initialized, no timer is set.
ProcessStart(w) ==
  [w EXCEPT !.restarts = @ + 1,
            !.heap = [i \in ObjIds |-> IF i = 1 THEN getDefaultState(w.today)
                                       ELSE FreeCell],
            !.ref = [m \in Modules |-> 1],
            !.config = getDefaultConfig,
            !.isInitialized = FALSE,
            !.isScanning = FALSE,
            !.timers = 0,
            !.handleLive = FALSE,
            !.timerDue = 0]

\* The process is restarted between ticks.
Restart ==
  /\ pc = "idle" /\ InHorizon
  /\ isInitialized
  /\ restarts < MaxRestarts
  /\ Apply(ProcessStart(Begin("restart")))

\* The process dies while stop() is writing the state file.  saveBotState
\* hands the target path itself to fs.writeFile, which truncates it and
\* then writes the document: the file is left with a prefix of it.
CrashInSave ==
  /\ pc = "idle" /\ InHorizon
  /\ isInitialized
  /\ restarts < MaxRestarts
  /\ Apply(ProcessStart([FuturesBot_stop(Begin("crash")) EXCEPT !.stateFile = Torn]))

\* The analyzer examines a symbol (as a scan does for each of config.symbols).
Analyze ==
  \E symbol \in SymbolSet, m \in Markets, aiConfig \in AiConfigs, resp \in Responses :
    LET r == analyzeSymbol(advisor, symbol, m, aiConfig, resp)
    IN /\ advisor' = [advisor EXCEPT
            !.cache = r.cache,
            !.last = [asked |-> r.asked, queried |-> r.queried,
                      kind |-> resp.kind, data |-> r.data, signal |-> r.signal,
                      gates |-> m.fetchOk /\ m.adxPassed /\ m.direction # "IDLE"
                                /\ m.candles /\ m.entryOk,
                      enabled |-> aiConfig.enabled /\ aiConfig.useForEntry]]
       /\ UNCHANGED <<programVars, entryLeverage, stream, ev>>

\* Date.now() enters the next 10-minute bucket.
BucketPasses ==
  /\ advisor.bucket < MaxBucket
  /\ advisor' = [advisor EXCEPT !.bucket = @ + 1, !.last = NoCall]
  /\ UNCHANGED <<programVars, entryLeverage, stream, ev>>

\* The engine, its operator and the exchange.
Next ==
  \/ ApiStart \/ ApiStop \/ ApiStatus
  \/ TimerFire \/ TickForce \/ TickMonitor \/ TickScan
  \/ StopFill \/ ExternalClose

Spec == Init /\ [][Next]_vars

\* The unattended engine over a date change and a process restart: the
\* operator starts it and reads its status, positions end by their stops.
NextDaily ==
  \/ ApiStart \/ ApiStatus
  \/ TimerFire \/ TickMonitor \/ TickScan
  \/ StopFill \/ Midnight \/ Restart
SpecDaily == Init /\ [][NextDaily]_vars

\* ... with an operator who also stops it.
NextStopped == NextDaily \/ ApiStop
SpecStopped == Init /\ [][NextStopped]_vars

\* The engine with process restarts, its ticks running whenever they are
\* due.  A timeout that is due does not stay pending for ever (the event
\* loop runs its callback unless it is cleared), and a tick that has begun
\* returns (every await of scan() is bounded by a timeout).
TimerRuns == timers > 0 /\ Max(now + 1, timerDue) <= MaxTime /\ timers' = timers - 1
TickReturns == pc = "scan" /\ pc' = "idle"
NextLive == Next \/ Restart
SpecLive ==
  /\ Init /\ [][NextLive]_vars
  /\ WF_timers(TimerRuns) /\ WF_pc(TickReturns)

\* ... with a process that can also die in the middle of a save.
NextCrash == NextLive \/ CrashInSave
SpecCrash == Init /\ [][NextCrash]_vars

\* The analyzer and the advisory service alone.
NextAdvisor == Analyze \/ BucketPasses
SpecAdvisor == Init /\ [][NextAdvisor]_vars

\* openPosition selects the leverage of an entry (one entry is examined).
SelectLeverage ==
  /\ ~entryLeverage.called
  /\ \E botConfig \in LeverageConfigs, hasAi \in Bools, confidence \in Confidences,
        riskLevel \in RiskLevels, balance \in LeverageBalances,
        price \in LeveragePrices, atr \in LeverageATRs, direction \in {"LONG", "SHORT"} :
       /\ entryLeverage' = selectLeverage(botConfig,
                         [price |-> price, hasAi |-> hasAi,
                          aiAnalysis |-> [confidence |-> confidence, riskLevel |-> riskLevel]],
                         balance, calculateStopLoss(price, direction, atr))
       /\ UNCHANGED <<programVars, advisor, stream, ev>>

\* The leverage selection alone.
NextLeverage == SelectLeverage
SpecLeverage == Init /\ [][NextLeverage]_vars

\* The price stream: its callers, its sockets and its timers.
StreamBegin(op) == [stream EXCEPT !.last = [NoStreamOp EXCEPT !.op = op], !.thrown = FALSE]
StreamAssign(s) ==
  /\ stream' = Forget(s)
  /\ UNCHANGED <<programVars, advisor, entryLeverage, ev>>
HasFree(s) == \E i \in SocketIds : s.sockets[i] = "free"

\* FuturesBot.start(): priceService.initializeWebSocket(config.symbols)
InitializeWebSocket ==
  /\ stream.waiting.who = "none" /\ HasFree(stream)
  /\ \E symbol \in BotSymbols :
       StreamAssign(Initialize(StreamBegin("initialize"), "price", symbol))

\* The subscribe route: initialize(), then subscribePrices(symbols, cb).
ApiSubscribe ==
  /\ stream.waiting.who = "none" /\ HasFree(stream)
  /\ \E key \in StreamKeys :
       StreamAssign(Initialize(StreamBegin("subscribe"), "api", key))

SocketOpens ==
  \E i \in SocketIds :
    /\ stream.sockets[i] = "connecting"
    /\ StreamAssign(onopen(StreamBegin("open"), i))

SocketErrors ==
  \E i \in SocketIds :
    /\ stream.sockets[i] \in {"connecting", "open"}
    /\ StreamAssign(onerror(StreamBegin("error"), i))

\* The close event of a socket the server closed, or that close() or an
\* error closed.
SocketCloses ==
  \E i \in SocketIds :
    /\ stream.sockets[i] \in {"open", "closing"}
    /\ StreamAssign(onclose(StreamBegin("close"), i))

ConnectTimeout ==
  \E i \in stream.timeouts : StreamAssign(connectTimeout(StreamBegin("timeout"), i))

ReconnectTimerFires ==
  /\ stream.pending > 0 /\ HasFree(stream)
  /\ StreamAssign(reconnectTimerCallback(StreamBegin("reconnect")))

\* FuturesBot.stop(): priceService.disconnect()
StopStream ==
  /\ stream.wsEnabled
  /\ StreamAssign(PriceService_disconnect(StreamBegin("disconnect")))

\* A ticker of btcusdt@ticker arrives on a socket that subscribed to it.
Ticker ==
  \E i \in stream.subscribed :
    /\ stream.sockets[i] = "open"
    /\ StreamAssign(handleTickerMessage(StreamBegin("ticker"),
                                        TickerSymbolOf("btcusdt"), StreamPrice))

\* PositionMonitor.monitorPosition: priceService.getPrice(position.symbol)
GetPrice ==
  /\ BotSymbols # {}
  /\ \E symbol \in BotSymbols :
       StreamAssign(PriceService_getPrice(StreamBegin("getPrice"), symbol))

\* CACHE_TTL (5 s) passes without a cache update.
TtlPasses ==
  /\ stream.tickFresh \/ \E k \in BotSymbols : stream.priceCache[k].fresh
  /\ StreamAssign([StreamBegin("ttl") EXCEPT
       !.tickFresh = FALSE,
       !.priceCache = [k \in BotSymbols |-> [stream.priceCache[k] EXCEPT !.fresh = FALSE]]])

\* The connection of the price stream as the engine uses it.
NextStream ==
  \/ InitializeWebSocket \/ StopStream
  \/ SocketOpens \/ SocketErrors \/ SocketCloses
  \/ ConnectTimeout \/ ReconnectTimerFires
SpecStream == Init /\ [][NextStream]_vars

\* The prices of the stream: its subscribers, the tickers and the readers,
\* on connections that open and that the server closes.
NextPrices ==
  \/ InitializeWebSocket \/ ApiSubscribe \/ StopStream
  \/ SocketOpens \/ SocketCloses \/ ReconnectTimerFires
  \/ Ticker \/ GetPrice \/ TtlPasses
SpecPrices == Init /\ [][NextPrices]_vars

\* The engine with ticks at wall-clock times around the force-liquidate time.
NextClock ==
  \/ ApiStart \/ ApiStop \/ ApiStatus
  \/ TimerFire \/ TickForceClock \/ TickMonitorClock \/ TickScanClock
  \/ StopFill \/ ExternalClose
SpecClock == Init /\ [][NextClock]_vars

\* The engine over a stored state that says running with the breaker tripped.
SpecStored == InitStored /\ [][Next]_vars

\* ... with a history file that can become unparseable.
NextHistory == Next \/ CorruptHistory
SpecHistory == Init /\ [][NextHistory]_vars

\* ... with configuration patches.
NextConfig == Next \/ ApiConfig
SpecConfig == Init /\ [][NextConfig]_vars

TypeOK ==
  /\ pc \in {"idle", "scan"}
  /\ now \in 0..MaxTime
  /\ \A m \in Modules : heap[ref[m]].status # "FREE"

(***************************************************************************)
(* Properties                                                              *)
(***************************************************************************)
\* The state the state manager holds, and the breaker as persisted.
botState == heap[ref["sm"]]
\* The exchange holds a position in a symbol the engine does not track.
Untracked ==
  \E s \in SymbolSet :
    exPos[s] # 0 /\ ~(HasPos(botState) /\ botState.currentPosition.symbol = s)

\* A tick is in flight or will run within the horizon.
TickAhead == pc = "scan" \/ (timers > 0 /\ Max(now + 1, timerDue) <= MaxTime)

Tripped == stateFile.status # "NOFILE" /\ stateFile.cbTriggered
SamePosition(p, q) == p.symbol = q.symbol /\ p.openTime = q.openTime

\* C1: at every tick boundary the status is POSITION exactly when a
\* position is held (the state has a single position slot).
C1_SinglePosition ==
  pc = "idle" => ((botState.status = "POSITION") <=> HasPos(botState))

\* C2: after every close (explicit or compensated) dailyPnL equals its
\* value before the close plus the pnl of the history row of the trade.
C2_AccountingClosure ==
  ev.closeDone => botState.dailyPnL = ev.dailyBefore + ev.rowPnl

C4_Cooldown ==
  /\ ev.opened => botState.lastTradeTime = now
  /\ (ev.closeKind = "compensated" /\ ev.closeDone) => botState.lastTradeTime = now
  /\ ~ev.attemptInCooldown

\* C5: no position is recorded twice in the trade history.
C5_OneRowPerPosition ==
  \A i, j \in DOMAIN histFile.rows :
     i # j => histFile.rows[i].openTime # histFile.rows[j].openTime

C7_AppendOnly ==
  [][LET old == histFile.rows
         new == histFile'.rows
     IN /\ \A i \in DOMAIN old : \E j \in DOMAIN new : new[j] = old[i]
        /\ \A j \in DOMAIN new :
             (\A i \in DOMAIN old : old[i] # new[j])
             => \A i \in DOMAIN old : new[j].closeTime > old[i].closeTime]_vars

C9_CompensatedClose ==
  ev.inconsistent =>
    /\ ev.rows = 1
    /\ ~ev.stopFilled => ev.exitPrice = ev.marketPrice
    /\ botState.dailyPnL = ev.dailyBefore + ev.rowPnl
    /\ ~HasPos(botState)

\* C10: a close adds one to consecutiveLosses when the trade lost and
\* resets it otherwise; at the threshold the breaker halts the engine.
C10_ConsecutiveLosses ==
  ev.closeDone =>
    /\ botState.consecutiveLosses = (IF ev.rowPnl < 0 THEN ev.lossesBefore + 1 ELSE 0)
    /\ botState.consecutiveLosses >= config.riskConfig.consecutiveLossesThreshold
         => (botState.cbTriggered /\ botState.status = "HALTED" /\ ~botState.isRunning)

\* C11: every call of openPosition that set status = OPENING ends either
\* with status POSITION and a position, or with status MONITORING, no
\* position and todayTrades as before; the status is never OPENING between
\* ticks.
C11_OpeningResolves ==
  /\ pc = "idle" => botState.status # "OPENING"
  /\ \A i \in DOMAIN ev.opens :
       LET e == ev.opens[i]
       IN \/ e.status = "POSITION" /\ e.hasPos
          \/ e.status = "MONITORING" /\ ~e.hasPos /\ e.trades = e.tradesBefore

\* C12: openPosition never returns leaving on the exchange a filled
\* position of the symbol that the state does not track.
C12_NoOrphanedFill ==
  \A i \in DOMAIN ev.opens : ev.opens[i].onExchange => ev.opens[i].hasPos

C14_StopWaits ==
  [][/\ ev'.op = "stop" => (pc' = "idle" /\ timers' = 0 /\ ~botState'.isRunning)
     /\ (ev.op = "stop" /\ ev'.op = "tick")
          => (ev'.entryOrders = 0 /\ ~ev'.closeTried /\ botState' = botState)]_vars

C17_PatchDeferred ==
  [][pc = "scan" /\ pc' = "scan" => config' = config]_vars

\* C18: allowNewTrades is false whenever the daily trade limit is reached,
\* the trade cooldown is active or the circuit breaker is tripped.
C18_AllowNewTrades ==
  (\/ botState.todayTrades >= config.riskConfig.dailyTradeLimit
   \/ (botState.lastTradeTime # 0 /\
       now < botState.lastTradeTime + config.tradeCooldownInterval)
   \/ botState.cbTriggered)
  => ~botState.allowNewTrades

\* C19: a daily reset (in a tick or in initialize) that finds the engine
\* stopped by the operator (status IDLE, no breaker, trade limit not
\* reached) does not set it running again.
C19_ResetKeepsStopped ==
  (/\ ev.dailyReset /\ ev.op # "start"
   /\ ev.resetSaw.status = "IDLE" /\ ~ev.resetSaw.isRunning
   /\ ~ev.resetSaw.cbTriggered
   /\ ev.resetSaw.todayTrades < config.riskConfig.dailyTradeLimit)
  => ~botState.isRunning

\* C20: the daily reset runs exactly on the first tick or initialize whose
\* date differs from lastResetDate: it runs only when the date differs, it
\* leaves lastResetDate = today (so it does not run again that day), every
\* tick and every initialize that finds another date runs it, and after it
\* todayTrades and dailyPnL are zero (but for what the same tick opens).
C20_ResetOncePerDay ==
  [][/\ ev'.dailyReset =>
          /\ ev'.resetSaw.lastResetDate # today'
          /\ botState'.lastResetDate = today'
          /\ botState'.todayTrades <= ev'.openAttempts
          /\ ev'.op = "status" => (botState'.todayTrades = 0 /\ botState'.dailyPnL = 0)
     /\ (ev'.op = "tick" /\ heap[ref["sc"]].lastResetDate # today) => ev'.dailyReset
     /\ (ev'.op = "tick" /\ heap[ref["sc"]].lastResetDate = today) => ~ev'.dailyReset
     /\ (ev'.op \in {"status", "start"} /\ ~isInitialized /\ stateFile.status # "NOFILE")
          => (ev'.dailyReset <=> stateFile.lastResetDate # today)]_vars
C20_ResetRan ==
  /\ ev.dailyReset /\ ev.op = "tick"
  /\ today > 0 /\ botState.lastResetDate = today
  /\ ev.resetSaw.todayTrades > 0 /\ botState.todayTrades = 0

\* C21: an entry is attempted only while todayTrades < dailyTradeLimit, so
\* (the limit being the default, never patched) todayTrades never exceeds
\* dailyTradeLimit.
C21_TradeLimit ==
  /\ botState.todayTrades <= config.riskConfig.dailyTradeLimit
  /\ ev.openAttempts > 0 => ev.tradesBefore < config.riskConfig.dailyTradeLimit

C23_WholeFileAtomic == stateFile.status # "TORN"

\* C24: when the advisory service is queried and answers with an HTTP error,
\* a timeout or a malformed response, analyzeMarketWithAI returns the
\* sentinel (IDLE, confidence 0, riskLevel HIGH), leaves the cache as it
\* was, and analyzeSymbol gives no signal.
C24_SentinelOnFailure ==
  [][(advisor'.last.queried /\ advisor'.last.kind # "answer")
     => /\ advisor'.last.data = Sentinel
        /\ advisor'.cache = advisor.cache
        /\ advisor'.last.signal = "none"]_vars

\* C25: when the advisory service is unavailable, a symbol that passes the
\* ADX gate, the direction rule and the entry gate still gives a signal.
C25_DegradesToTechnical ==
  (advisor.last.gates /\ advisor.last.queried /\ advisor.last.kind \in {"reject", "httpError"})
  => advisor.last.signal # "none"

\* C26: a tick that begins on the day of the last reset with the circuit
\* breaker tripped submits no order, runs neither the monitor nor the scan,
\* leaves currentPosition, todayTrades, dailyPnL, the exchange and the
\* history as they are, sets status HALTED and isRunning false, and
\* schedules no further tick.
C26_HaltedTickNoOp ==
  [][(pc = "scan" /\ ev'.op = "tick" /\ botState.cbTriggered
      /\ botState.lastResetDate = today)
     => /\ ev'.branch = "halt"
        /\ ev'.entryOrders = 0 /\ ev'.openAttempts = 0 /\ ev'.scanned = 0
        /\ ~ev'.closeTried /\ ~ev'.trailTried /\ ~ev'.inconsistent
        /\ exPos' = exPos /\ stops' = stops /\ histFile' = histFile
        /\ botState'.currentPosition = botState.currentPosition
        /\ botState'.todayTrades = botState.todayTrades
        /\ botState'.dailyPnL = botState.dailyPnL
        /\ botState'.status = "HALTED" /\ ~botState'.isRunning
        /\ pc' = "idle" /\ timers' = 0]_vars
C26_HaltedTick ==
  /\ ev.op = "tick" /\ ev.branch = "halt"
  /\ botState.cbTriggered /\ botState.status = "HALTED" /\ ~botState.isRunning

\* C27: a tick inside the force-liquidate window (local hour equal to
\* forceLiquidateTime.hour and minute >= forceLiquidateTime.minute) that finds
\* a position open and the breaker not tripped invokes the close with the
\* forced-close reason and returns without the position monitor, the
\* trailing-stop update or the scan for entries.
C27_ForceLiquidate ==
  [][(/\ pc = "scan" /\ ev'.op = "tick"
      /\ HasPos(botState) /\ ~botState.cbTriggered
      /\ ev'.clock.hour = config.riskConfig.forceLiquidateTime.hour
      /\ ev'.clock.minute >= config.riskConfig.forceLiquidateTime.minute)
     => /\ ev'.branch = "force"
        /\ ev'.closeTried /\ ev'.closeReason = "FORCED"
        /\ ~ev'.monitored /\ ~ev'.inconsistent /\ ~ev'.trailTried
        /\ ev'.scanned = 0 /\ ev'.openAttempts = 0]_vars
C27_ForcedClose ==
  /\ ev.op = "tick" /\ ev.branch = "force"
  /\ ev.clock = [hour |-> 23, minute |-> 59]
  /\ ev.closeReason = "FORCED" /\ ev.closeDone
  /\ ~HasPos(botState) /\ histFile.rows # <<>>

C29_ExitOrder ==
  [][(ev'.op = "tick" /\ ev'.exit.evaluated)
     => /\ IF ev'.exit.timeout THEN ev'.closeReason = "TIMEOUT"
           ELSE IF ev'.exit.tp2 THEN ev'.closeReason = "TP2"
           ELSE IF ev'.exit.tp1 THEN ev'.closeReason = "TP1"
           ELSE ~ev'.closeTried
        /\ ev'.trailTried => ~ev'.closeTried]_vars

\* C30: a close with reason TP1 happens only at a profit per unit of at
\* least risk * takeProfit.tp1RiskRewardRatio, the TP1 condition being that
\* very comparison, and the takeProfit1 and takeProfit2 stored on a position
\* that was just opened are entry +/- risk * tp1RiskRewardRatio and
\* entry +/- risk * tp2RiskRewardRatio of the configuration.
C30_TP1AtConfiguredRatio ==
  [][/\ (ev'.op = "tick" /\ ev'.exit.evaluated)
        => /\ ev'.exit.tp1 <=>
                (ev'.exit.profit >= ev'.exit.risk * config.riskConfig.tp1RiskRewardRatio)
           /\ ev'.closeReason = "TP1" =>
                (ev'.exit.profit >= ev'.exit.risk * config.riskConfig.tp1RiskRewardRatio)
     /\ (ev'.op = "tick" /\ ev'.opened /\ HasPos(botState'))
        => LET p == botState'.currentPosition
           IN /\ p.takeProfit1 = calculateTakeProfit(p.entryPrice, p.stopLoss, p.direction,
                                                     config.riskConfig.tp1RiskRewardRatio)
              /\ p.takeProfit2 = calculateTakeProfit(p.entryPrice, p.stopLoss, p.direction,
                                                     config.riskConfig.tp2RiskRewardRatio)]_vars

\* Prices at which the exit conditions of a position are compared.
ProbePrices == 190..210
\* The trailing stop of a position is active at a price (its profit has
\* reached activationRatio times the risk).
TrailingActive(price, position) ==
  calculateTrailingStopLoss(price, position, 2).newStopLoss # 0

\* C31: a trailing-stop update leaves the risk of the position as it was
\* fixed at the open: at every price the TP1 condition, the TP2 ratio
\* trigger and the activation of the trailing stop are the same for the
\* position after the update as before it.
C31_RiskFixedAtOpen ==
  [][(/\ ev'.op = "tick" /\ ev'.stopMoved
      /\ HasPos(botState) /\ HasPos(botState')
      /\ SamePosition(botState.currentPosition, botState'.currentPosition))
     => \A p \in ProbePrices :
          /\ checkTP1Condition(p, botState'.currentPosition)
               <=> checkTP1Condition(p, botState.currentPosition)
          /\ checkTP2Condition(p, botState'.currentPosition, FALSE, config.riskConfig)
               <=> checkTP2Condition(p, botState.currentPosition, FALSE, config.riskConfig)
          /\ TrailingActive(p, botState'.currentPosition)
               <=> TrailingActive(p, botState.currentPosition)]_vars

\* C35: a scan tick submits at most one entry market order, and after an
\* openPosition that sent its market order and failed it opens no position
\* on another symbol.
C35_OneEntryOrderPerTick ==
  ev.op = "tick" => ev.entryOrders <= 1

\* The position recorded in a state is protected on the exchange: the stop
\* order whose id is its stopLossOrderId is open.
Protected(state, orders) ==
  \E s \in orders : /\ s.id = state.currentPosition.stopLossOrderId
                    /\ s.symbol = state.currentPosition.symbol
                    /\ s.status = "open"

\* C36: a tick that replaces the trailing stop of a protected position and
\* keeps the position leaves it protected: the order named by stopLossOrderId
\* is still open on the exchange, also when the new placement fails after
\* the old stop was cancelled.
C36_StopStaysLive ==
  [][(/\ ev'.op = "tick" /\ ev'.trailTried
      /\ HasPos(botState) /\ Protected(botState, stops)
      /\ HasPos(botState')
      /\ SamePosition(botState.currentPosition, botState'.currentPosition)
      /\ exPos'[botState'.currentPosition.symbol] # 0)
     => Protected(botState', stops')]_vars

\* C37: at every tick boundary the state manager, the scanner, the opener,
\* the monitor, the closer and the validator refer to one state record: no
\* module is left with a copy another module does not see.
C37_OneStateRecord ==
  pc = "idle" => \A m \in DOMAIN ref : ref[m] = ref["sm"]

C32_DynamicLeverageFormula ==
  entryLeverage.path = "dynamic"
  => LET cfg == entryLeverage.botConfig.dynamicLeverageConfig
         ai == entryLeverage.aiAnalysis
     IN entryLeverage.dynamicLeverage =
          Max(cfg.minLeverage,
              Min(cfg.maxLeverage,
                  MathRound(cfg.baseLeverage * (80 + ai.confidence)
                              * cfg.riskLevelMultipliers[ai.riskLevel], 1000)))

\* C33: the leverage set for an entry is clamp(min(dynamic, safe),
\* minLeverage, maxLeverage), with safe = clamp(round((maxRiskPercentage/100)
\* / stopLossDistanceFraction), 1, 20), when dynamic leverage is enabled, an
\* advisory is present and the computation succeeds; it is the static
\* config.leverage otherwise.  On the dynamic path it lies in
\* [minLeverage, maxLeverage].
C33_FinalLeverage ==
  entryLeverage.called
  => LET botConfig == entryLeverage.botConfig
         cfg == botConfig.dynamicLeverageConfig
         safe == Max(1, Min(20, MathRound(botConfig.maxRiskPercentage * entryLeverage.price,
                                 100 * Abs(entryLeverage.price - entryLeverage.stopLoss))))
     IN IF cfg.enabled /\ entryLeverage.hasAi /\ entryLeverage.path # "failed"
        THEN /\ entryLeverage.path = "dynamic"
             /\ entryLeverage.safeLeverage = safe
             /\ entryLeverage.finalLeverage =
                  Max(cfg.minLeverage,
                      Min(cfg.maxLeverage, Min(entryLeverage.dynamicLeverage, safe)))
             /\ entryLeverage.finalLeverage \in cfg.minLeverage..cfg.maxLeverage
        ELSE entryLeverage.finalLeverage = botConfig.leverage

\* An entry whose safe leverage is below the configured range: the leverage
\* set is minLeverage.
C33_SafeBelowRange ==
  /\ entryLeverage.path = "dynamic"
  /\ entryLeverage.safeLeverage < entryLeverage.botConfig.dynamicLeverageConfig.minLeverage
  /\ entryLeverage.safeLeverage < entryLeverage.dynamicLeverage
  /\ entryLeverage.finalLeverage = entryLeverage.botConfig.dynamicLeverageConfig.minLeverage

\* C34: the price stream reconnects after a close with a growing delay and
\* a bounded number of attempts: reconnectAttempts never exceeds
\* maxReconnectAttempts and is 0 after every open, at most one reconnect
\* timeout is pending, a close below the bound schedules one timeout whose
\* delay is reconnectInterval for the first attempt and 1.5 times the
\* previous delay for each further one, a close at the bound schedules
\* none, and the timeout that runs opens a new connection.
C34_BoundedReconnect ==
  /\ [](stream.reconnectAttempts <= MaxReconnectAttempts /\ stream.pending <= 1)
  /\ [][/\ stream'.last.op = "open" => stream'.reconnectAttempts = 0
        /\ (stream'.last.op = "close" /\ stream.reconnectAttempts < MaxReconnectAttempts)
             => /\ stream'.last.scheduled /\ stream'.pending = 1
                /\ stream'.reconnectAttempts = stream.reconnectAttempts + 1
                /\ stream.reconnectAttempts = 0 => stream'.delay = 16 * ReconnectInterval
                /\ stream.reconnectAttempts > 0 => 2 * stream'.delay = 3 * stream.delay
        /\ (stream'.last.op = "close" /\ stream.reconnectAttempts = MaxReconnectAttempts)
             => /\ ~stream'.last.scheduled
                /\ stream'.pending = stream.pending
                /\ stream'.reconnectAttempts = MaxReconnectAttempts
        /\ stream'.last.op = "reconnect"
             => /\ stream'.last.connected /\ stream'.status = "CONNECTING"
                /\ stream'.ws # 0 /\ stream'.sockets[stream'.ws] = "connecting"]_vars

\* The bound is reached: a close after maxReconnectAttempts attempts
\* schedules no further reconnection.
C34_AttemptsExhausted ==
  /\ stream.last.op = "close" /\ ~stream.last.scheduled
  /\ stream.reconnectAttempts = MaxReconnectAttempts
  /\ stream.pending = 0

\* C38: after disconnect() no reconnection is attempted: until connect() is
\* called explicitly the status stays DISCONNECTED and no reconnect timeout
\* is pending, also once the close event of the socket disconnect() closed
\* has arrived.
C38_NoReconnectAfterDisconnect ==
  stream.userDisconnected => (stream.status = "DISCONNECTED" /\ stream.pending = 0)

\* C39: a ticker of a symbol subscribed through
\* WebSocketManager.subscribePrice(symbol, cb) is delivered to cb, and the
\* price service's callback stores its price under the symbol that
\* getPrice(symbol) reads: while the price service is enabled and a ticker
\* arrived less than CACHE_TTL ago, getPrice answers from the cache with the
\* streamed price, without the REST call.
C39_TickerReachesGetPrice ==
  [][/\ stream'.last.op = "ticker"
          => \A k \in StreamKeys : \A cb \in stream.subscribers[k] :
               /\ <<k, cb>> \in stream'.last.delivered
               /\ cb = "price" => stream'.priceCache[k] = [price |-> StreamPrice, fresh |-> TRUE]
     /\ (stream'.last.op = "getPrice" /\ stream.wsEnabled /\ stream.tickFresh)
          => /\ stream'.last.source = "cache"
             /\ \A k \in BotSymbols : stream'.priceCache[k].price = StreamPrice]_vars

====
